---- MODULE Spec2Model ----
(***************************************************************************)
(* Model of raiden/storage/sqlite.py: SQLiteStorage, one sqlite3           *)
(* connection shared by every caller, a threading.Lock around the          *)
(* inserting operations, the in_transaction flag of transaction(), and     *)
(* the read queries over state_changes, state_events and state_snapshot.   *)
(*                                                                         *)
(* conn is the database as statements on the shared connection see it      *)
(* (uncommitted rows included), committed is what the last COMMIT left.    *)
(* A table is the sequence of its rows in ascending identifier order.      *)
(***************************************************************************)
EXTENDS Integers, Sequences, FiniteSets, TLC

VARIABLES conn, committed, txn_open, write_lock, in_transaction,
          pc, frame, ret, scope, appends

vars == <<conn, committed, txn_open, write_lock, in_transaction,
          pc, frame, ret, scope, appends>>

\* ------------------------------------------------------------------ bounds

\* Rows the three tables may hold together; identifier arguments range over
\* 0..MaxRows, which covers every identifier a row can have.
MaxRows == 4

Threads == {"t1", "t2"}
SeqThreads == {"t1"}
NoThread == "none"

\* Serialized payloads: JSON objects whose "_type" field the queries extract.
Payload == {[type |-> "raiden.transfer.events.EventPaymentReceivedSuccess"],
            [type |-> "Block"]}

\* The domain objects a caller hands to SerializedSQLiteStorage.
Objects == {[cls |-> "raiden.transfer.events.EventPaymentReceivedSuccess"],
            [cls |-> "Block"]}

\* serializer.serialize: the JSON document of an object, its class under "_type".
Serialize(obj) == [type |-> obj.cls]

\* serializer.deserialize: the object of a JSON document.
Deserialize(data) == [cls |-> data.type]

Idle == [op |-> "idle"]
NoRet == [op |-> "none"]

\* Python values of an argument: an int, None, the string "latest", a float.
PyInt(n) == [int |-> n]
PyNone == [none |-> TRUE]
Latest == [str |-> "latest"]
NotInt == [float |-> "1.5"]

\* isinstance(x, int)
IsInt(x) == DOMAIN x = {"int"}

IdArgs == 1..MaxRows

\* Payment events in the store the payment-event query is run over.
MaxEvents == 2

\* ------------------------------------------------------------ the database

\* runs is the number of rows of the runs table; last_insert_rowid is SQLite's
\* sqlite3_last_insert_rowid of the connection, which the execute of an INSERT
\* reads into cursor.lastrowid once its row is in.
EmptyDb == [state_changes |-> <<>>, state_events |-> <<>>, state_snapshot |-> <<>>,
            runs |-> 0, last_insert_rowid |-> 0]

RowCount(c) == Len(c.state_changes) + Len(c.state_events) + Len(c.state_snapshot)

Ids(rows) == {rows[i].identifier : i \in 1..Len(rows)}

\* A null identifier in an INTEGER PRIMARY KEY column: the largest one plus one.
NextRowId(rows) == IF rows = <<>> THEN 1 ELSE rows[Len(rows)].identifier + 1

\* cursor.lastrowid after an INSERT: the identifier of the row just inserted.
LastRowId(rows) == rows[Len(rows)].identifier

\* FOREIGN KEY(...) REFERENCES state_changes(identifier) under foreign_keys=ON.
ForeignKeyOk(c, statechange_id) == statechange_id \in Ids(c.state_changes)

\* Mutant: the PRAGMA is not executed; SQLite does not enforce foreign keys.
ForeignKeysOff == FALSE

\* conn.execute("PRAGMA foreign_keys=ON") in __init__
ForeignKeysOn == TRUE

\* An INSERT of a row that references a state change passes when foreign
\* keys are not enforced or the state change is there; else IntegrityError.
ForeignKeyCheck(c, statechange_id) ==
    ForeignKeysOn => ForeignKeyOk(c, statechange_id)

\* Mutant: the INSERT names identifier 1 and replaces the row that has it.
InsertStateChangeReplacing(c, data) ==
    [c EXCEPT !.state_changes = <<[identifier |-> 1, data |-> data]>>]

InsertStateChange(c, data) ==
    [c EXCEPT !.state_changes =
        Append(@, [identifier |-> NextRowId(@), data |-> data])]

\* Mutant: the row's own identifier is bound to the statechange_id column.
InsertStateSnapshotOwnId(c, statechange_id, data) ==
    [c EXCEPT !.state_snapshot =
        Append(@, [identifier |-> NextRowId(@),
                   statechange_id |-> NextRowId(@), data |-> data])]

InsertStateSnapshot(c, statechange_id, data) ==
    [c EXCEPT !.state_snapshot =
        Append(@, [identifier |-> NextRowId(@),
                   statechange_id |-> statechange_id, data |-> data])]

InsertStateEvent(c, statechange_id, data) ==
    [c EXCEPT !.state_events =
        Append(@, [identifier |-> NextRowId(@),
                   source_statechange_id |-> statechange_id, data |-> data])]

\* Mutant: DELETE FROM state_changes WHERE identifier = ?
DeleteStateChange(c, identifier) ==
    [c EXCEPT !.state_changes =
        SelectSeq(@, LAMBDA row : row.identifier # identifier)]

\* DELETE FROM state_events WHERE identifier = ?
DeleteStateEvent(c, identifier) ==
    [c EXCEPT !.state_events =
        SelectSeq(@, LAMBDA row : row.identifier # identifier)]

\* UPDATE <table> SET data=? WHERE identifier=?
UpdateData(rows, identifier, data) ==
    [i \in 1..Len(rows) |->
        IF rows[i].identifier = identifier
        THEN [rows[i] EXCEPT !.data = data] ELSE rows[i]]

\* conn.commit(), COMMIT, and leaving "with self.conn" without an exception:
\* what the connection sees becomes the committed database.
CommitResult(c, old) == c

\* conn.rollback(), ROLLBACK, and leaving "with self.conn" on an exception:
\* the connection is back at the committed database.
RollbackResult(c, old) == old

\* ------------------------------------------------------------------- Init

Init ==
    /\ conn = EmptyDb
    /\ committed = EmptyDb
    /\ txn_open = FALSE
    /\ write_lock = NoThread
    /\ in_transaction = FALSE
    /\ pc = [t \in Threads |-> "idle"]
    /\ frame = [t \in Threads |-> Idle]
    /\ ret = [t \in Threads |-> NoRet]
    /\ scope = [t \in Threads |-> FALSE]
    /\ appends = 0

\* A caller is between two calls and has taken what the last one returned.
CanCall(t) == pc[t] = "idle" /\ ret[t] = NoRet

\* The caller takes the value (or the exception) its call ended with.
TakeResult(t) ==
    /\ pc[t] = "idle"
    /\ ret[t] # NoRet
    /\ ret' = [ret EXCEPT ![t] = NoRet]
    /\ UNCHANGED <<conn, committed, txn_open, write_lock, in_transaction,
                   pc, frame, scope, appends>>

Return(t, r) ==
    /\ pc' = [pc EXCEPT ![t] = "idle"]
    /\ frame' = [frame EXCEPT ![t] = Idle]
    /\ ret' = [ret EXCEPT ![t] = r]

Goto(t, label, f) ==
    /\ pc' = [pc EXCEPT ![t] = label]
    /\ frame' = [frame EXCEPT ![t] = f]
    /\ ret' = [ret EXCEPT ![t] = NoRet]

\* Mutant: the lock is not taken into account.
LockIgnored(t) == TRUE

\* threading.Lock.acquire: free for the taking, or the caller waits.
LockFree(t) == write_lock = NoThread

\* ------------------------------------------------------ write_state_change

\* SerializedSQLiteStorage.write_state_change serializes the state change;
\* with self.write_lock
WriteStateChangeLock(t) ==
    \E state_change \in Objects :
        /\ CanCall(t)
        /\ LockFree(t)
        /\ RowCount(conn) < MaxRows
        /\ appends < MaxRows
        /\ write_lock' = t
        /\ Goto(t, "wsc_execute",
                [op |-> "write_state_change", state_change |-> state_change,
                 data |-> Serialize(state_change), last_id |-> 0])
        /\ UNCHANGED <<conn, committed, txn_open, in_transaction, scope, appends>>

\* self.conn.execute("INSERT INTO state_changes ..."); last_id = cursor.lastrowid
WriteStateChangeExecute(t) ==
    /\ pc[t] = "wsc_execute"
    /\ conn' = InsertStateChange(conn, frame[t].data)
    /\ txn_open' = TRUE
    /\ Goto(t, "wsc_exit",
            [frame[t] EXCEPT !.last_id = LastRowId(conn'.state_changes)])
    /\ UNCHANGED <<committed, write_lock, in_transaction, scope, appends>>

\* write_state_change called while the lock may be held: the caller waits at
\* "with self.write_lock" ...
WriteStateChangeCall(t) ==
    /\ CanCall(t)
    /\ RowCount(conn) + Cardinality({u \in Threads : pc[u] = "wsc_lock"}) < MaxRows
    /\ appends < MaxRows
    /\ \E state_change \in Objects :
        Goto(t, "wsc_lock",
             [op |-> "write_state_change", state_change |-> state_change,
              data |-> Serialize(state_change), last_id |-> 0])
    /\ UNCHANGED <<conn, committed, txn_open, write_lock, in_transaction,
                   scope, appends>>

\* ... and acquires it once it is free
WriteStateChangeAcquire(t) ==
    /\ pc[t] = "wsc_lock"
    /\ LockFree(t)
    /\ write_lock' = t
    /\ Goto(t, "wsc_execute", frame[t])
    /\ UNCHANGED <<conn, committed, txn_open, in_transaction, scope, appends>>

\* Mutant: the lock is not released.
WriteStateChangeExitKeepsLock(t) ==
    /\ pc[t] = "wsc_exit"
    /\ committed' = CommitResult(conn, committed)
    /\ txn_open' = FALSE
    /\ appends' = appends + 1
    /\ Return(t, [op |-> "write_state_change", raised |-> "",
                  val |-> frame[t].last_id])
    /\ UNCHANGED <<conn, write_lock, in_transaction, scope>>

\* leaving "with self.write_lock, self.conn": commit, release; return last_id
WriteStateChangeExit(t) ==
    /\ pc[t] = "wsc_exit"
    /\ committed' = CommitResult(conn, committed)
    /\ txn_open' = FALSE
    /\ write_lock' = NoThread
    /\ appends' = appends + 1
    /\ Return(t, [op |-> "write_state_change", raised |-> "",
                  val |-> frame[t].last_id])
    /\ UNCHANGED <<conn, in_transaction, scope>>

\* The execute of write_state_change as the two things it does on the
\* connection, for callers next to one that inserts without the lock: the
\* INSERT itself, row being the identifier it gave ...
WriteStateChangeInsert(t) ==
    /\ pc[t] = "wsc_execute"
    /\ conn' = [InsertStateChange(conn, frame[t].data) EXCEPT
                   !.last_insert_rowid = NextRowId(conn.state_changes)]
    /\ txn_open' = TRUE
    /\ Goto(t, "wsc_lastrowid",
            [op |-> "write_state_change", state_change |-> frame[t].state_change,
             data |-> frame[t].data, last_id |-> 0,
             row |-> NextRowId(conn.state_changes)])
    /\ UNCHANGED <<committed, write_lock, in_transaction, scope, appends>>

\* ... and the read of the connection's last insert rowid into
\* cursor.lastrowid, which "last_id = cursor.lastrowid" then returns
WriteStateChangeLastRowId(t) ==
    /\ pc[t] = "wsc_lastrowid"
    /\ Goto(t, "wsc_exit", [frame[t] EXCEPT !.last_id = conn.last_insert_rowid])
    /\ UNCHANGED <<conn, committed, txn_open, write_lock, in_transaction,
                   scope, appends>>

\* log_run: cursor.execute("INSERT INTO runs(raiden_version) VALUES (?)"); no
\* lock is taken; maybe_commit follows
LogRunExecute(t) ==
    /\ CanCall(t)
    /\ conn.runs < MaxRows
    /\ conn' = [conn EXCEPT !.runs = @ + 1, !.last_insert_rowid = conn.runs + 1]
    /\ txn_open' = TRUE
    /\ Goto(t, "maybe_commit", [op |-> "log_run"])
    /\ UNCHANGED <<committed, write_lock, in_transaction, scope, appends>>

\* ---------------------------------------------------- write_state_snapshot

\* SerializedSQLiteStorage.write_state_snapshot serializes the snapshot;
\* with self.write_lock
WriteStateSnapshotLock(t) ==
    \E statechange_id \in IdArgs, snapshot \in Objects :
        /\ CanCall(t)
        /\ LockFree(t)
        /\ RowCount(conn) < MaxRows
        /\ write_lock' = t
        /\ Goto(t, "wss_execute",
                [op |-> "write_state_snapshot", statechange_id |-> statechange_id,
                 snapshot |-> snapshot, data |-> Serialize(snapshot),
                 last_id |-> 0, failed |-> FALSE])
        /\ UNCHANGED <<conn, committed, txn_open, in_transaction, scope, appends>>

\* self.conn.execute("INSERT INTO state_snapshot ..."); last_id = cursor.lastrowid
WriteStateSnapshotExecute(t) ==
    /\ pc[t] = "wss_execute"
    /\ txn_open' = TRUE
    /\ IF ForeignKeyCheck(conn, frame[t].statechange_id)
       THEN /\ conn' = InsertStateSnapshot(conn, frame[t].statechange_id, frame[t].data)
            /\ Goto(t, "wss_exit",
                    [frame[t] EXCEPT !.last_id = LastRowId(conn'.state_snapshot)])
       ELSE /\ conn' = conn
            /\ Goto(t, "wss_exit", [frame[t] EXCEPT !.failed = TRUE])
    /\ UNCHANGED <<committed, write_lock, in_transaction, scope, appends>>

\* leaving "with self.write_lock, self.conn": commit (rollback on the
\* IntegrityError), release; return last_id
WriteStateSnapshotExit(t) ==
    /\ pc[t] = "wss_exit"
    /\ IF frame[t].failed
       THEN /\ conn' = RollbackResult(conn, committed)
            /\ committed' = committed
            /\ Return(t, [op |-> "write_state_snapshot", raised |-> "IntegrityError"])
       ELSE /\ conn' = conn
            /\ committed' = CommitResult(conn, committed)
            /\ Return(t, [op |-> "write_state_snapshot", raised |-> "",
                          val |-> frame[t].last_id,
                          statechange_id |-> frame[t].statechange_id,
                          data |-> frame[t].data])
    /\ txn_open' = FALSE
    /\ write_lock' = NoThread
    /\ UNCHANGED <<in_transaction, scope, appends>>

\* ------------------------------------------------------------ write_events

DataOfBatch(batch) == [i \in 1..Len(batch) |-> batch[i].data]

\* The batches a caller passes: one or two events of one state change.
EventBatches == {<<d>> : d \in Payload} \cup {<<d, d>> : d \in Payload}

\* SerializedSQLiteStorage.write_events builds the rows with a null identifier;
\* with self.write_lock
WriteEventsLock(t) ==
    \E statechange_id \in IdArgs, events \in EventBatches :
        /\ CanCall(t)
        /\ LockFree(t)
        /\ RowCount(conn) + Len(events) <= MaxRows
        /\ write_lock' = t
        /\ Goto(t, "we_execute",
                [op |-> "write_events", statechange_id |-> statechange_id,
                 ids |-> [i \in 1..Len(events) |-> statechange_id],
                 events |-> events, rows |-> <<>>, failed |-> FALSE])
        /\ UNCHANGED <<conn, committed, txn_open, in_transaction, scope, appends>>

\* The batches of SQLiteStorage.write_events(events), whose rows each name
\* their state change: two rows of two state changes.
RowBatches ==
    {<<[source_statechange_id |-> a, data |-> d],
       [source_statechange_id |-> b, data |-> d]>> :
        a \in IdArgs, b \in IdArgs, d \in Payload}

\* SQLiteStorage.write_events called with rows (null, source_statechange_id,
\* log_time, data); with self.write_lock
WriteEventRowsLock(t) ==
    \E batch \in RowBatches :
        /\ CanCall(t)
        /\ LockFree(t)
        /\ batch[1].source_statechange_id # batch[2].source_statechange_id
        /\ RowCount(conn) + Len(batch) <= MaxRows
        /\ write_lock' = t
        /\ Goto(t, "we_execute",
                [op |-> "write_events",
                 ids |-> [i \in 1..Len(batch) |-> batch[i].source_statechange_id],
                 events |-> DataOfBatch(batch), rows |-> <<>>, failed |-> FALSE])
        /\ UNCHANGED <<conn, committed, txn_open, in_transaction, scope, appends>>

\* self.conn.executemany("INSERT INTO state_events ..."): one row per step;
\* frame.rows records the identifiers this call has inserted.
WriteEventsExecute(t) ==
    /\ pc[t] = "we_execute"
    /\ Len(frame[t].rows) < Len(frame[t].events)
    /\ ~frame[t].failed
    /\ txn_open' = TRUE
    /\ IF ForeignKeyCheck(conn, frame[t].ids[Len(frame[t].rows) + 1])
       THEN /\ conn' = InsertStateEvent(conn, frame[t].ids[Len(frame[t].rows) + 1],
                                        frame[t].events[Len(frame[t].rows) + 1])
            /\ Goto(t, "we_execute",
                    [frame[t] EXCEPT !.rows = Append(@, LastRowId(conn'.state_events))])
       ELSE /\ conn' = conn
            /\ Goto(t, "we_execute", [frame[t] EXCEPT !.failed = TRUE])
    /\ UNCHANGED <<committed, write_lock, in_transaction, scope, appends>>

\* leaving "with self.write_lock, self.conn": commit (rollback on the
\* IntegrityError), release
WriteEventsExit(t) ==
    /\ pc[t] = "we_execute"
    /\ frame[t].failed \/ Len(frame[t].rows) = Len(frame[t].events)
    /\ IF frame[t].failed
       THEN /\ conn' = RollbackResult(conn, committed)
            /\ committed' = committed
            /\ Return(t, [op |-> "write_events", raised |-> "IntegrityError"])
       ELSE /\ conn' = conn
            /\ committed' = CommitResult(conn, committed)
            /\ Return(t, [op |-> "write_events", raised |-> ""])
    /\ txn_open' = FALSE
    /\ write_lock' = NoThread
    /\ UNCHANGED <<in_transaction, scope, appends>>

\* ---------------------------------------------------- delete_state_changes

\* The lists of identifiers a caller passes: one or two.
DeleteArgs == {<<a>> : a \in IdArgs} \cup {<<a, b>> : a \in IdArgs, b \in IdArgs}

\* with self.write_lock
DeleteStateChangesLock(t) ==
    /\ CanCall(t)
    /\ LockFree(t)
    /\ \E state_changes_to_delete \in DeleteArgs :
        Goto(t, "dsc_execute",
             [op |-> "delete_state_changes",
              state_changes_to_delete |-> state_changes_to_delete, done |-> 0])
    /\ write_lock' = t
    /\ UNCHANGED <<conn, committed, txn_open, in_transaction, scope, appends>>

\* self.conn.executemany("DELETE FROM state_events WHERE identifier = ?", ...):
\* one identifier of the list per step
DeleteStateChangesExecute(t) ==
    /\ pc[t] = "dsc_execute"
    /\ conn' = DeleteStateEvent(conn, frame[t].state_changes_to_delete[frame[t].done + 1])
    /\ txn_open' = TRUE
    /\ Goto(t, IF frame[t].done + 1 = Len(frame[t].state_changes_to_delete)
               THEN "dsc_exit" ELSE "dsc_execute",
            [frame[t] EXCEPT !.done = @ + 1])
    /\ UNCHANGED <<committed, write_lock, in_transaction, scope, appends>>

\* leaving "with self.write_lock, self.conn": commit, release
DeleteStateChangesExit(t) ==
    /\ pc[t] = "dsc_exit"
    /\ committed' = CommitResult(conn, committed)
    /\ txn_open' = FALSE
    /\ write_lock' = NoThread
    /\ Return(t, [op |-> "delete_state_changes", raised |-> ""])
    /\ UNCHANGED <<conn, in_transaction, scope, appends>>

\* ---------------------------------------------------------- maybe_commit

\* update_state_changes: cursor.executemany("UPDATE state_changes SET data=? ...")
\* with a list of one (data, identifier) pair; no lock is taken.
UpdateStateChangesExecute(t) ==
    \E identifier \in IdArgs, data \in Payload :
        /\ CanCall(t)
        /\ conn' = [conn EXCEPT !.state_changes = UpdateData(@, identifier, data)]
        /\ txn_open' = TRUE
        /\ Goto(t, "maybe_commit", [op |-> "update_state_changes"])
        /\ UNCHANGED <<committed, write_lock, in_transaction, scope, appends>>

\* update_events: cursor.executemany("UPDATE state_events SET data=? ...")
UpdateEventsExecute(t) ==
    \E identifier \in IdArgs, data \in Payload :
        /\ CanCall(t)
        /\ conn' = [conn EXCEPT !.state_events = UpdateData(@, identifier, data)]
        /\ txn_open' = TRUE
        /\ Goto(t, "maybe_commit", [op |-> "update_events"])
        /\ UNCHANGED <<committed, write_lock, in_transaction, scope, appends>>

\* update_snapshots / update_snapshot:
\* cursor.executemany("UPDATE state_snapshot SET data=? ...")
UpdateSnapshotsExecute(t) ==
    \E identifier \in IdArgs, data \in Payload :
        /\ CanCall(t)
        /\ conn' = [conn EXCEPT !.state_snapshot = UpdateData(@, identifier, data)]
        /\ txn_open' = TRUE
        /\ Goto(t, "maybe_commit", [op |-> "update_snapshots"])
        /\ UNCHANGED <<committed, write_lock, in_transaction, scope, appends>>

\* Mutant: self.conn.commit() whatever the flag.
MaybeCommitAlways(t) ==
    /\ pc[t] = "maybe_commit"
    /\ committed' = CommitResult(conn, committed)
    /\ txn_open' = FALSE
    /\ Return(t, [op |-> frame[t].op, raised |-> ""])
    /\ UNCHANGED <<conn, write_lock, in_transaction, scope, appends>>

\* maybe_commit: if not self.in_transaction: self.conn.commit()
MaybeCommit(t) ==
    /\ pc[t] = "maybe_commit"
    /\ IF in_transaction
       THEN UNCHANGED <<committed, txn_open>>
       ELSE /\ committed' = CommitResult(conn, committed)
            /\ txn_open' = FALSE
    /\ Return(t, [op |-> frame[t].op, raised |-> ""])
    /\ UNCHANGED <<conn, write_lock, in_transaction, scope, appends>>

\* ------------------------------------------------------------ transaction

\* Entering "with storage.transaction()": in_transaction = True; BEGIN. A BEGIN
\* inside an open transaction is an OperationalError: the except clause rolls
\* back, the finally clause resets the flag, the error propagates.
TransactionEnter(t) ==
    /\ CanCall(t)
    /\ ~scope[t]
    /\ IF txn_open
       THEN /\ conn' = RollbackResult(conn, committed)
            /\ txn_open' = FALSE
            /\ in_transaction' = FALSE
            /\ scope' = scope
            /\ Return(t, [op |-> "transaction", raised |-> "OperationalError",
                          entered |-> FALSE])
       ELSE /\ conn' = conn
            /\ txn_open' = TRUE
            /\ in_transaction' = TRUE
            /\ scope' = [scope EXCEPT ![t] = TRUE]
            /\ Return(t, NoRet)
    /\ UNCHANGED <<committed, write_lock, appends>>

\* The body ends without an error: COMMIT; finally in_transaction = False.
\* With no transaction open the COMMIT is an OperationalError, and so is the
\* ROLLBACK of the except clause; that error propagates.
TransactionCommit(t) ==
    /\ CanCall(t)
    /\ scope[t]
    /\ IF txn_open
       THEN /\ committed' = CommitResult(conn, committed)
            /\ Return(t, [op |-> "transaction", raised |-> "", entered |-> TRUE])
       ELSE /\ committed' = committed
            /\ Return(t, [op |-> "transaction", raised |-> "OperationalError",
                          entered |-> TRUE])
    /\ txn_open' = FALSE
    /\ in_transaction' = FALSE
    /\ scope' = [scope EXCEPT ![t] = FALSE]
    /\ UNCHANGED <<conn, write_lock, appends>>

\* The body raises: ROLLBACK; raise; finally in_transaction = False. With no
\* transaction open the ROLLBACK itself is an OperationalError.
TransactionRaise(t) ==
    /\ CanCall(t)
    /\ scope[t]
    /\ conn' = IF txn_open THEN RollbackResult(conn, committed) ELSE conn
    /\ txn_open' = FALSE
    /\ in_transaction' = FALSE
    /\ scope' = [scope EXCEPT ![t] = FALSE]
    /\ Return(t, [op |-> "transaction",
                  raised |-> IF txn_open THEN "Error" ELSE "OperationalError",
                  entered |-> TRUE])
    /\ UNCHANGED <<committed, write_lock, appends>>

\* ------------------------------------------------------ count_state_changes

\* SELECT COUNT(1) FROM state_changes
CountStateChangesQuery(c) == Len(c.state_changes)

CountStateChanges(t) ==
    /\ CanCall(t)
    /\ Return(t, [op |-> "count_state_changes", raised |-> "",
                  val |-> CountStateChangesQuery(conn)])
    /\ UNCHANGED <<conn, committed, txn_open, write_lock, in_transaction, scope, appends>>

\* ------------------------------------------------ get_latest_state_snapshot

\* Mutant: ORDER BY identifier ASC.
GetOldestStateSnapshotQuery(c) ==
    LET rows == c.state_snapshot IN
    IF rows # <<>>
    THEN [found |-> TRUE, statechange_id |-> rows[1].statechange_id,
          data |-> rows[1].data]
    ELSE [found |-> FALSE]

\* SELECT statechange_id, data from state_snapshot ORDER BY identifier DESC LIMIT 1
GetLatestStateSnapshotQuery(c) ==
    LET rows == c.state_snapshot IN
    IF rows # <<>>
    THEN [found |-> TRUE, statechange_id |-> rows[Len(rows)].statechange_id,
          data |-> rows[Len(rows)].data]
    ELSE [found |-> FALSE]

GetLatestStateSnapshot(t) ==
    /\ CanCall(t)
    /\ Return(t, [op |-> "get_latest_state_snapshot", raised |-> "",
                  val |-> GetLatestStateSnapshotQuery(conn)])
    /\ UNCHANGED <<conn, committed, txn_open, write_lock, in_transaction, scope, appends>>

\* ------------------------------------- get_snapshot_closest_to_state_change

\* Mutant: ORDER BY identifier ASC.
OldestStateChangeId(c) ==
    IF c.state_changes # <<>> THEN c.state_changes[1].identifier ELSE 0

\* SELECT identifier FROM state_changes ORDER BY identifier DESC LIMIT 1,
\* 0 when there is no row
LatestStateChangeId(c) ==
    IF c.state_changes # <<>>
    THEN c.state_changes[Len(c.state_changes)].identifier
    ELSE 0

\* SELECT statechange_id, data FROM state_snapshot WHERE statechange_id <= ?
\* ORDER BY identifier DESC LIMIT 1
ClosestSnapshotRows(rows, n) ==
    LET below == SelectSeq(rows, LAMBDA row : row.statechange_id <= n) IN
    IF below # <<>> THEN <<below[Len(below)]>> ELSE <<>>

\* Mutant: the type check is missing; a bound that is no number compares as
\* NULL in "statechange_id <= ?" and selects no row.
GetSnapshotClosestUnchecked(c, arg) ==
    LET n == IF arg = Latest THEN LatestStateChangeId(c)
             ELSE IF IsInt(arg) THEN arg.int ELSE -1
        rows == ClosestSnapshotRows(c.state_snapshot, n)
    IN IF rows # <<>>
       THEN [raised |-> "", executed |-> TRUE,
             statechange_id |-> rows[1].statechange_id, data |-> rows[1].data]
       ELSE [raised |-> "", executed |-> TRUE, statechange_id |-> 0, data |-> PyNone]

\* executed: a statement has been run on the connection.
GetSnapshotClosestQuery(c, arg) ==
    IF ~(arg = Latest \/ IsInt(arg))
    THEN [raised |-> "ValueError", executed |-> FALSE]
    ELSE LET n == IF arg = Latest THEN LatestStateChangeId(c) ELSE arg.int
             rows == ClosestSnapshotRows(c.state_snapshot, n)
         IN IF rows # <<>>
            THEN [raised |-> "", executed |-> TRUE,
                  statechange_id |-> rows[1].statechange_id, data |-> rows[1].data]
            ELSE [raised |-> "", executed |-> TRUE,
                  statechange_id |-> 0, data |-> PyNone]

ClosestArgs == {PyInt(n) : n \in 0..MaxRows} \cup {Latest, PyNone, NotInt}

GetSnapshotClosestToStateChange(t) ==
    \E arg \in ClosestArgs :
        /\ CanCall(t)
        /\ LET result == GetSnapshotClosestQuery(conn, arg)
           IN Return(t, [op |-> "get_snapshot_closest_to_state_change", arg |-> arg,
                         raised |-> result.raised, val |-> result])
        /\ UNCHANGED <<conn, committed, txn_open, write_lock, in_transaction,
                       scope, appends>>

\* ------------------------------------------- get_statechanges_by_identifier

DataOf(rows) == [i \in 1..Len(rows) |-> rows[i].data]

\* SELECT data FROM state_changes WHERE identifier >= ? ORDER BY identifier ASC
StateChangesFrom(c, from) ==
    DataOf(SelectSeq(c.state_changes, LAMBDA row : row.identifier >= from))

\* Mutant: the upper bound is exclusive.
StateChangesBelow(c, from, to) ==
    DataOf(SelectSeq(c.state_changes,
                     LAMBDA row : row.identifier >= from /\ row.identifier < to))

\* SELECT data FROM state_changes WHERE identifier BETWEEN ? AND ?
\* ORDER BY identifier ASC
StateChangesBetween(c, from, to) ==
    DataOf(SelectSeq(c.state_changes,
                     LAMBDA row : row.identifier >= from /\ row.identifier <= to))

\* The two type checks come first; a from_identifier of "latest" then asserts
\* to_identifier is None, which the second check has already excluded.
GetStateChangesByIdentifierQuery(c, from, to) ==
    IF ~(from = Latest \/ IsInt(from))
    THEN [raised |-> "ValueError", executed |-> FALSE]
    ELSE IF ~(to = Latest \/ IsInt(to))
    THEN [raised |-> "ValueError", executed |-> FALSE]
    ELSE IF from = Latest THEN [raised |-> "AssertionError", executed |-> FALSE]
    ELSE IF to = Latest
         THEN [raised |-> "", executed |-> TRUE,
               rows |-> StateChangesFrom(c, from.int)]
         ELSE [raised |-> "", executed |-> TRUE,
               rows |-> StateChangesBetween(c, from.int, to.int)]

\* Mutant: the stored documents are returned as they are.
StateChangesNotDeserialized(c, from, to) ==
    GetStateChangesByIdentifierQuery(c, from, to).rows

\* SerializedSQLiteStorage.get_statechanges_by_identifier, for bounds the
\* query accepts: every document returned is deserialized.
StateChangesDeserialized(c, from, to) ==
    LET rows == GetStateChangesByIdentifierQuery(c, from, to).rows
    IN [i \in 1..Len(rows) |-> Deserialize(rows[i])]

\* SerializedSQLiteStorage.get_latest_state_snapshot: None, or the
\* statechange_id with the deserialized snapshot.
LatestStateSnapshotDeserialized(c) ==
    LET row == GetLatestStateSnapshotQuery(c)
    IN IF row.found
       THEN [found |-> TRUE, statechange_id |-> row.statechange_id,
             snapshot |-> Deserialize(row.data)]
       ELSE [found |-> FALSE]

GetStateChangesByIdentifier(t) ==
    \E from \in ClosestArgs, to \in ClosestArgs :
        /\ CanCall(t)
        /\ LET result == GetStateChangesByIdentifierQuery(conn, from, to)
           IN Return(t, [op |-> "get_statechanges_by_identifier",
                         from |-> from, to |-> to,
                         raised |-> result.raised, val |-> result])
        /\ UNCHANGED <<conn, committed, txn_open, write_lock, in_transaction,
                       scope, appends>>

\* ------------------------------------------------ _sanitize_limit_and_offset

Min(a, b) == IF a < b THEN a ELSE b

BadNumber(x) == x # PyNone /\ (~IsInt(x) \/ x.int < 0)

\* Mutant: only the type is checked, a negative number passes.
SanitizeTypeOnly(limit, offset) ==
    IF limit # PyNone /\ ~IsInt(limit) THEN [raised |-> "InvalidNumberInput"]
    ELSE IF offset # PyNone /\ ~IsInt(offset) THEN [raised |-> "InvalidNumberInput"]
    ELSE [raised |-> "",
          limit |-> IF limit = PyNone THEN -1 ELSE limit.int,
          offset |-> IF offset = PyNone THEN 0 ELSE offset.int]

\* _sanitize_limit_and_offset: a limit of -1 is SQLite's "no limit".
SanitizeLimitAndOffset(limit, offset) ==
    IF BadNumber(limit) THEN [raised |-> "InvalidNumberInput"]
    ELSE IF BadNumber(offset) THEN [raised |-> "InvalidNumberInput"]
    ELSE [raised |-> "",
          limit |-> IF limit = PyNone THEN -1 ELSE limit.int,
          offset |-> IF offset = PyNone THEN 0 ELSE offset.int]

\* The same checks, written out again at the head of _query_payments_events.
PaymentsLimitAndOffset(limit, offset) ==
    IF BadNumber(limit) THEN [raised |-> "InvalidNumberInput"]
    ELSE IF BadNumber(offset) THEN [raised |-> "InvalidNumberInput"]
    ELSE [raised |-> "",
          limit |-> IF limit = PyNone THEN -1 ELSE limit.int,
          offset |-> IF offset = PyNone THEN 0 ELSE offset.int]

\* ... LIMIT ? OFFSET ? over rows already in identifier order; SQLite takes a
\* negative LIMIT as no limit and a negative OFFSET as 0
LimitOffset(rows, limit, offset) ==
    LET skip == IF offset < 0 THEN 0 ELSE offset
    IN SubSeq(rows, skip + 1,
              IF limit < 0 THEN Len(rows) ELSE Min(Len(rows), skip + limit))

\* -------------------------------------------------------- _filter_from_dict

\* A str used as a key or a JSON path is the sequence of its parts between
\* dots: "a" is <<"a">>, "a.b" is <<"a", "b">>.
\* A dict is the sequence of its (key, value) items in insertion order, a
\* value either a leaf or a dict.
Leaf(v) == [leaf |-> v]
Dict(items) == [dict |-> items]

\* isinstance(v, dict)
IsDict(v) == DOMAIN v = {"dict"}

\* Mutant: the key of the nested item alone.
JoinKeyDropsPrefix(k, sub) == sub

\* f"{k}.{sub}"
JoinKey(k, sub) == k \o sub

\* filter_[k] = v: a key already there keeps its place and gets the value
SetItem(items, k, v) ==
    IF \E i \in 1..Len(items) : items[i][1] = k
    THEN [i \in 1..Len(items) |-> IF items[i][1] = k THEN <<k, v>> ELSE items[i]]
    ELSE Append(items, <<k, v>>)

\* for sub, v2 in <flattened>.items(): filter_[f"{k}.{sub}"] = v2
RECURSIVE SetJoined(_, _, _)
SetJoined(filter_, k, flattened) ==
    IF flattened = <<>> THEN filter_
    ELSE SetJoined(SetItem(filter_, JoinKey(k, Head(flattened)[1]), Head(flattened)[2]),
                   k, Tail(flattened))

\* _filter_from_dict(current), and its loop over current.items() from the
\* items left and the filter_ built so far
RECURSIVE FilterFromDict(_)
RECURSIVE FilterFromItems(_, _)
FilterFromItems(items, filter_) ==
    IF items = <<>> THEN filter_
    ELSE LET k == Head(items)[1]
             v == Head(items)[2]
         IN FilterFromItems(Tail(items),
                IF IsDict(v)
                THEN SetJoined(filter_, k, FilterFromDict(v.dict))
                ELSE SetItem(filter_, k, v))

FilterFromDict(current) == FilterFromItems(current, <<>>)

\* The dicts of one or two items over the given keys and values.
DictsOver(keys, values) ==
    {<<>>}
    \cup {<<<<k, v>>>> : k \in keys, v \in values}
    \cup {d \in {<<<<k1, v1>>, <<k2, v2>>>> :
                    k1 \in keys, v1 \in values, k2 \in keys, v2 \in values} :
            d[1][1] # d[2][1]}

FilterLeaves == {Leaf(1), Leaf(2)}

NestedFilters == {Dict(d) : d \in DictsOver({<<"b">>, <<"c">>}, FilterLeaves)}

\* The filters a caller passes: flat and nested, a key with a dot among them.
FilterDicts ==
    DictsOver({<<"a">>, <<"b">>, <<"a", "b">>}, FilterLeaves \cup NestedFilters)

FilterFromDictCall(t) ==
    \E current \in FilterDicts :
        /\ CanCall(t)
        /\ Return(t, [op |-> "_filter_from_dict", current |-> current,
                      raised |-> "", val |-> FilterFromDict(current)])
        /\ UNCHANGED <<conn, committed, txn_open, write_lock, in_transaction,
                       scope, appends>>

\* ------- get_latest_event_by_data_field, get_latest_state_change_by_data_field

\* json_extract(data, '$.<path>'): the leaf or the object the path leads to,
\* NULL when the document has no such path
RECURSIVE JsonExtractPath(_, _)
JsonExtractPath(data, path) ==
    IF path = <<>> THEN [null |-> FALSE, v |-> data]
    ELSE IF DOMAIN data # {"leaf"} /\ Head(path) \in DOMAIN data
    THEN JsonExtractPath(data[Head(path)], Tail(path))
    ELSE [null |-> TRUE]

\* WHERE json_extract(data, ?)=? AND ...: one clause per item of the
\* flattened filters
WhereAllEqual(data, flat) ==
    \A i \in 1..Len(flat) :
        /\ ~JsonExtractPath(data, flat[i][1]).null
        /\ JsonExtractPath(data, flat[i][1]).v = flat[i][2]

\* SELECT ... WHERE <clauses> ORDER BY identifier DESC LIMIT 1. Without a
\* clause the statement reads "WHERE ORDER BY": sqlite3.OperationalError.
LatestByDataField(rows, filters) ==
    LET flat == FilterFromDict(filters)
        matching == SelectSeq(rows, LAMBDA row : WhereAllEqual(row.data, flat))
    IN IF flat = <<>> THEN [raised |-> "OperationalError", rows |-> <<>>]
       ELSE IF matching = <<>> THEN [raised |-> "", rows |-> <<>>]
       ELSE [raised |-> "", rows |-> <<matching[Len(matching)]>>]

\* get_latest_event_by_data_field: EventRecord(0, 0, None) unless a row is
\* fetched; SerializedSQLiteStorage deserializes the data of an identifier > 0
GetLatestEventByDataFieldQuery(c, filters) ==
    LET result == LatestByDataField(c.state_events, filters)
    IN IF result.raised # "" THEN [raised |-> result.raised]
       ELSE IF result.rows = <<>>
       THEN [raised |-> "", identifier |-> 0, state_change_identifier |-> 0,
             data |-> PyNone]
       ELSE [raised |-> "", identifier |-> result.rows[1].identifier,
             state_change_identifier |-> result.rows[1].source_statechange_id,
             data |-> IF result.rows[1].identifier > 0
                      THEN Deserialize(result.rows[1].data)
                      ELSE result.rows[1].data]

\* get_latest_state_change_by_data_field: StateChangeRecord(0, None) unless a
\* row is fetched
GetLatestStateChangeByDataFieldQuery(c, filters) ==
    LET result == LatestByDataField(c.state_changes, filters)
    IN IF result.raised # "" THEN [raised |-> result.raised]
       ELSE IF result.rows = <<>>
       THEN [raised |-> "", identifier |-> 0, data |-> PyNone]
       ELSE [raised |-> "", identifier |-> result.rows[1].identifier,
             data |-> IF result.rows[1].identifier > 0
                      THEN Deserialize(result.rows[1].data)
                      ELSE result.rows[1].data]

GetLatestEventByDataField(t) ==
    /\ CanCall(t)
    /\ \E filters \in FilterDicts :
        LET result == GetLatestEventByDataFieldQuery(conn, filters)
        IN Return(t, [op |-> "get_latest_event_by_data_field",
                      table |-> "state_events", filters |-> filters,
                      raised |-> result.raised, val |-> result])
    /\ UNCHANGED <<conn, committed, txn_open, write_lock, in_transaction,
                   scope, appends>>

GetLatestStateChangeByDataField(t) ==
    /\ CanCall(t)
    /\ \E filters \in FilterDicts :
        LET result == GetLatestStateChangeByDataFieldQuery(conn, filters)
        IN Return(t, [op |-> "get_latest_state_change_by_data_field",
                      table |-> "state_changes", filters |-> filters,
                      raised |-> result.raised, val |-> result])
    /\ UNCHANGED <<conn, committed, txn_open, write_lock, in_transaction,
                   scope, appends>>

\* --------------------------------------------- _form_and_execute_json_query

\* str.lower(), and the case folding of LIKE
Lower(v) ==
    CASE v = "Block" -> "block"
      [] v = "0xNode" -> "0xnode"
      [] v = "0xPeer" -> "0xpeer"
      [] OTHER -> v

\* json_extract(data, '$.<field>'): NULL for a path the document lacks
JsonExtract(data, field) ==
    IF field = "_type" THEN [null |-> FALSE, v |-> data.type]
    ELSE IF field \in DOMAIN data THEN [null |-> FALSE, v |-> data[field]]
    ELSE [null |-> TRUE]

\* x LIKE pattern: never true of NULL, case-insensitive, % matches any text
Like(x, pattern) ==
    /\ ~x.null
    /\ pattern = "%" \/ Lower(x.v) = Lower(pattern)

\* WHERE json_extract(data, ?) LIKE ? joined by AND / OR; no WHERE clause
\* without filters
Where(data, filters, logical_and) ==
    \/ filters = <<>>
    \/ /\ filters # <<>>
       /\ IF logical_and
          THEN \A i \in 1..Len(filters) :
                  Like(JsonExtract(data, filters[i][1]), filters[i][2])
          ELSE \E i \in 1..Len(filters) :
                  Like(JsonExtract(data, filters[i][1]), filters[i][2])

FormAndExecuteJsonQuery(rows, limit, offset, filters, logical_and) ==
    LET s == SanitizeLimitAndOffset(limit, offset) IN
    IF s.raised # ""
    THEN [raised |-> s.raised, executed |-> FALSE, rows |-> <<>>]
    ELSE [raised |-> "", executed |-> TRUE,
          rows |-> LimitOffset(
                      SelectSeq(rows, LAMBDA row : Where(row.data, filters, logical_and)),
                      s.limit, s.offset)]

Table(c, name) == IF name = "state_changes" THEN c.state_changes ELSE c.state_events

LimitArgs == {PyNone, PyInt(-1), PyInt(0), PyInt(1), PyInt(2), NotInt}

Filters == {<<>>,
            <<<<"_type", "block">>>>,
            <<<<"_type", "Block">>, <<"_type", "%">>>>,
            <<<<"_type", "Block">>, <<"initiator", "%">>>>}

\* _get_state_changes and _get_event_records
GetRecords(t) ==
    \E name \in {"state_changes", "state_events"}, limit \in LimitArgs,
       offset \in LimitArgs, filters \in {<<>>, <<<<"_type", "block">>>>} :
        LET result == FormAndExecuteJsonQuery(Table(conn, name), limit, offset,
                                              filters, TRUE)
        IN /\ CanCall(t)
           /\ Return(t, [op |-> "get_records", table |-> name,
                         limit |-> limit, offset |-> offset, filters |-> filters,
                         logical_and |-> TRUE,
                         raised |-> result.raised, val |-> result])
           /\ UNCHANGED <<conn, committed, txn_open, write_lock, in_transaction,
                          scope, appends>>

\* ------------------------------------------------------------ _query_events

\* SELECT data, log_time FROM state_events ORDER BY identifier ASC LIMIT ? OFFSET ?
QueryEventsQuery(c, limit, offset) ==
    LET s == SanitizeLimitAndOffset(limit, offset) IN
    IF s.raised # ""
    THEN [raised |-> s.raised, executed |-> FALSE, rows |-> <<>>]
    ELSE [raised |-> "", executed |-> TRUE,
          rows |-> DataOf(LimitOffset(c.state_events, s.limit, s.offset))]

QueryEvents(t) ==
    \E limit \in LimitArgs, offset \in LimitArgs :
        /\ CanCall(t)
        /\ LET result == QueryEventsQuery(conn, limit, offset)
           IN Return(t, [op |-> "query_events", limit |-> limit, offset |-> offset,
                         raised |-> result.raised, val |-> result])
        /\ UNCHANGED <<conn, committed, txn_open, write_lock, in_transaction,
                       scope, appends>>

\* --------------------------------------------------- _query_payments_events

PaymentEventTypes == {"raiden.transfer.events.EventPaymentReceivedSuccess",
                      "raiden.transfer.events.EventPaymentSentFailed",
                      "raiden.transfer.events.EventPaymentSentSuccess"}

\* With no token network, address, date or event type given:
\* SELECT data, log_time FROM state_events
\* WHERE json_extract(data, '$._type') IN (<the three kinds>) LIMIT ? OFFSET ?
QueryPaymentsEventsQuery(c, limit, offset) ==
    LET s == PaymentsLimitAndOffset(limit, offset) IN
    IF s.raised # ""
    THEN [raised |-> s.raised, executed |-> FALSE, rows |-> <<>>]
    ELSE [raised |-> "", executed |-> TRUE,
          rows |-> DataOf(LimitOffset(
                      SelectSeq(c.state_events,
                                LAMBDA row : row.data.type \in PaymentEventTypes),
                      s.limit, s.offset))]

QueryPaymentsEvents(t) ==
    \E limit \in LimitArgs, offset \in LimitArgs :
        /\ CanCall(t)
        /\ LET result == QueryPaymentsEventsQuery(conn, limit, offset)
           IN Return(t, [op |-> "query_payments_events",
                         limit |-> limit, offset |-> offset,
                         raised |-> result.raised, val |-> result])
        /\ UNCHANGED <<conn, committed, txn_open, write_lock, in_transaction,
                       scope, appends>>

\* --------------------------------------------------- _get_query_with_values

PyStr(v) == [str |-> v]

ReceivedSuccess == "raiden.transfer.events.EventPaymentReceivedSuccess"
SentFailed == "raiden.transfer.events.EventPaymentSentFailed"
SentSuccess == "raiden.transfer.events.EventPaymentSentSuccess"

\* _get_event_type_query: the kinds of the IN (...) list
EventTypeQuery(event_type) ==
    CASE event_type = PyInt(1) -> {ReceivedSuccess}
      [] event_type = PyInt(2) -> {SentFailed}
      [] event_type = PyInt(3) -> {SentSuccess}
      [] OTHER -> {ReceivedSuccess, SentFailed, SentSuccess}

\* address is not None and address.lower() == our_address.lower()
IsOurAddress(address, our_address) ==
    address # PyNone /\ Lower(address.str) = Lower(our_address.str)

\* Mutant: the initiator leaves the kinds as they are.
InitiatorEventTypesKept(types, initiator_address, our_address) == types

\* if initiator_address is ours: event_type_result = _get_event_type_query(3)
InitiatorEventTypes(types, initiator_address, our_address) ==
    IF IsOurAddress(initiator_address, our_address)
    THEN EventTypeQuery(PyInt(3)) ELSE types

\* The query _get_query_with_values formats, as the kinds listed and the
\* clauses appended: target "and" or absent, initiator "and", "or" or absent.
GetQueryWithValues(token_network_identifier, our_address, initiator_address, target_address, event_type) ==
    LET by_target == IF IsOurAddress(target_address, our_address)
                     THEN EventTypeQuery(PyInt(1))
                     ELSE EventTypeQuery(event_type)
    IN [types |-> InitiatorEventTypes(by_target, initiator_address, our_address),
        token |-> token_network_identifier # PyNone,
        target |-> target_address # PyNone
                      /\ ~IsOurAddress(target_address, our_address),
        initiator |->
            IF initiator_address # PyNone
                  /\ ~IsOurAddress(initiator_address, our_address)
            THEN IF target_address # PyNone THEN "or" ELSE "and"
            ELSE "none"]

\* json_extract(state_events.data, '$.<field>') = ?: never true of a NULL on
\* either side
JsonEquals(data, field, value) ==
    /\ value # PyNone
    /\ ~JsonExtract(data, field).null
    /\ JsonExtract(data, field).v = value.str

\* _get_date_range_query: " AND log_time BETWEEN ? and ? ", " AND log_time >= ?",
\* " AND log_time <= ?", or nothing
DateRangeQuery(row, from_date, to_date) ==
    /\ from_date # PyNone => row.log_time >= from_date.int
    /\ to_date # PyNone => row.log_time <= to_date.int

\* The WHERE clause of the formatted query, AND binding tighter than OR:
\* _type IN (...) [AND token_network_identifier = ?] [AND log_time ...]
\*   [AND target = ?]
\*   [AND initiator = ? | OR initiator = ? AND token_network_identifier = ?]
PaymentsWhere(row, q, token_network_identifier, initiator_address, target_address, from_date, to_date) ==
    LET data == row.data
        head == /\ JsonExtract(data, "_type").v \in q.types
                /\ q.token =>
                      JsonEquals(data, "token_network_identifier", token_network_identifier)
                /\ DateRangeQuery(row, from_date, to_date)
                /\ q.target => JsonEquals(data, "target", target_address)
    IN CASE q.initiator = "none" -> head
         [] q.initiator = "and" ->
              head /\ JsonEquals(data, "initiator", initiator_address)
         [] OTHER ->
              \/ head
              \/ /\ JsonEquals(data, "initiator", initiator_address)
                 /\ JsonEquals(data, "token_network_identifier", token_network_identifier)

\* _query_payments_events with no limit or offset: the rows the formatted
\* query selects.
PaymentEventRows(c, token_network_identifier, our_address, initiator_address, target_address, event_type, from_date, to_date) ==
    LET q == GetQueryWithValues(token_network_identifier, our_address,
                                initiator_address, target_address, event_type)
    IN SelectSeq(c.state_events,
           LAMBDA row : PaymentsWhere(row, q, token_network_identifier,
                                      initiator_address, target_address,
                                      from_date, to_date))

\* _query_payments_events with no dates, limit or offset: the data of the
\* rows the formatted query selects.
PaymentEventsQuery(c, token_network_identifier, our_address, initiator_address, target_address, event_type) ==
    DataOf(PaymentEventRows(c, token_network_identifier, our_address,
                            initiator_address, target_address, event_type,
                            PyNone, PyNone))

\* The node's address as the caller passes it, and the addresses asked for.
OurAddress == PyStr("0xNode")
AddressArgs == {PyNone, PyStr("0xnode"), PyStr("0xPeer")}
TokenNetworkArgs == {PyNone, PyStr("0xTokenNetwork")}
EventTypeArgs == {PyNone, PyInt(1), PyInt(2), PyInt(3)}

\* get_payment_events / _query_payments_events
GetPaymentEvents(t) ==
    \E token_network_identifier \in TokenNetworkArgs, initiator_address \in AddressArgs,
       target_address \in AddressArgs, event_type \in EventTypeArgs :
        /\ CanCall(t)
        /\ Return(t, [op |-> "get_payment_events",
                      token_network_identifier |-> token_network_identifier,
                      our_address |-> OurAddress,
                      initiator_address |-> initiator_address,
                      target_address |-> target_address,
                      event_type |-> event_type, raised |-> "",
                      val |-> PaymentEventsQuery(conn, token_network_identifier,
                                  OurAddress, initiator_address, target_address,
                                  event_type)])
        /\ UNCHANGED <<conn, committed, txn_open, write_lock, in_transaction,
                       scope, appends>>

\* The "?" of the formatted query in the order of the text, each named by
\* the argument its clause compares with: token network, date range, target,
\* initiator (with the token network again after an OR), LIMIT ? OFFSET ?
Placeholders(q, from_date, to_date) ==
    (IF q.token THEN <<"token_network_identifier">> ELSE <<>>)
    \o (IF from_date # PyNone /\ to_date # PyNone THEN <<"from_date", "to_date">>
        ELSE IF from_date # PyNone THEN <<"from_date">>
        ELSE IF to_date # PyNone THEN <<"to_date">>
        ELSE <<>>)
    \o (IF q.target THEN <<"target_address">> ELSE <<>>)
    \o (CASE q.initiator = "none" -> <<>>
          [] q.initiator = "and" -> <<"initiator_address">>
          [] OTHER -> <<"initiator_address", "token_network_identifier">>)
    \o <<"limit", "offset">>

\* Mutant: from_date is inserted before to_date, and so ends up behind it.
TupleDatesSwapped(token_network_identifier, our_address, initiator_address, target_address, from_date, to_date, limit, offset, or_conditional) ==
    LET r1 == <<limit, offset>>
        r2 == IF initiator_address # PyNone /\ ~IsOurAddress(initiator_address, our_address)
              THEN <<initiator_address>>
                   \o (IF or_conditional THEN <<token_network_identifier>> ELSE <<>>) \o r1
              ELSE r1
        r3 == IF target_address # PyNone /\ ~IsOurAddress(target_address, our_address)
              THEN <<target_address>> \o r2 ELSE r2
        r4 == IF from_date # PyNone /\ to_date # PyNone
              THEN <<to_date>> \o (<<from_date>> \o r3) ELSE r3
        r5 == IF from_date # PyNone /\ to_date = PyNone THEN <<from_date>> \o r4 ELSE r4
        r6 == IF to_date # PyNone /\ from_date = PyNone THEN <<to_date>> \o r5 ELSE r5
    IN IF token_network_identifier # PyNone THEN <<token_network_identifier>> \o r6 ELSE r6

\* _get_tuple_to_get_payments: result = [limit, offset], then one
\* result.insert(0, ...) after the other
TupleToGetPayments(token_network_identifier, our_address, initiator_address, target_address, from_date, to_date, limit, offset, or_conditional) ==
    LET r1 == <<limit, offset>>
        r2 == IF initiator_address # PyNone /\ ~IsOurAddress(initiator_address, our_address)
              THEN <<initiator_address>>
                   \o (IF or_conditional THEN <<token_network_identifier>> ELSE <<>>) \o r1
              ELSE r1
        r3 == IF target_address # PyNone /\ ~IsOurAddress(target_address, our_address)
              THEN <<target_address>> \o r2 ELSE r2
        r4 == IF from_date # PyNone /\ to_date # PyNone
              THEN <<from_date>> \o (<<to_date>> \o r3) ELSE r3
        r5 == IF from_date # PyNone /\ to_date = PyNone THEN <<from_date>> \o r4 ELSE r4
        r6 == IF to_date # PyNone /\ from_date = PyNone THEN <<to_date>> \o r5 ELSE r5
    IN IF token_network_identifier # PyNone THEN <<token_network_identifier>> \o r6 ELSE r6

\* _get_query_with_values: the query text, here its placeholders, and the
\* tuple for execute; or_conditional is set where the initiator clause is
\* the OR one
GetQueryWithValuesCall(t) ==
    /\ CanCall(t)
    /\ \E token_network_identifier \in TokenNetworkArgs, initiator_address \in AddressArgs,
          target_address \in AddressArgs, from_date \in {PyNone, PyInt(1)},
          to_date \in {PyNone, PyInt(3)}, limit \in {PyInt(-1), PyInt(2)},
          offset \in {PyInt(0), PyInt(1)} :
        LET q == GetQueryWithValues(token_network_identifier, OurAddress,
                                    initiator_address, target_address, PyNone)
        IN Return(t, [op |-> "_get_query_with_values",
                      token_network_identifier |-> token_network_identifier,
                      initiator_address |-> initiator_address,
                      target_address |-> target_address,
                      from_date |-> from_date, to_date |-> to_date,
                      limit |-> limit, offset |-> offset, raised |-> "",
                      placeholders |-> Placeholders(q, from_date, to_date),
                      val |-> TupleToGetPayments(token_network_identifier, OurAddress,
                                  initiator_address, target_address, from_date,
                                  to_date, limit, offset, q.initiator = "or")])
    /\ UNCHANGED <<conn, committed, txn_open, write_lock, in_transaction,
                   scope, appends>>

\* The dates asked for; log_time is a number here, compared as SQLite
\* compares the timestamps.
DateArgs == {PyNone, PyInt(2)}

\* get_payment_events with from_date and to_date: (data, log_time) of the rows
GetPaymentEventsDated(t) ==
    /\ CanCall(t)
    /\ \E token_network_identifier \in TokenNetworkArgs, initiator_address \in AddressArgs,
          target_address \in AddressArgs, event_type \in EventTypeArgs,
          from_date \in DateArgs, to_date \in DateArgs :
        Return(t, [op |-> "get_payment_events",
                   token_network_identifier |-> token_network_identifier,
                   our_address |-> OurAddress,
                   initiator_address |-> initiator_address,
                   target_address |-> target_address,
                   event_type |-> event_type,
                   from_date |-> from_date, to_date |-> to_date, raised |-> "",
                   val |-> PaymentEventRows(conn, token_network_identifier,
                               OurAddress, initiator_address, target_address,
                               event_type, from_date, to_date)])
    /\ UNCHANGED <<conn, committed, txn_open, write_lock, in_transaction,
                   scope, appends>>

\* ------------------------ batch_query_state_changes, batch_query_event_records

\* Calling the generator function: limit = batch_size; offset = 0;
\* result_length = 1. Nothing is queried before the first next(). at_start
\* records the rows of the table at that moment.
BatchQueryCall(t) ==
    \E name \in {"state_changes", "state_events"}, batch_size \in LimitArgs,
       filters \in Filters, logical_and \in BOOLEAN :
        /\ CanCall(t)
        /\ Goto(t, "batch_next",
                [op |-> "batch_query", table |-> name, limit |-> batch_size,
                 offset |-> 0, result_length |-> 1, filters |-> filters,
                 logical_and |-> logical_and, pages |-> <<>>,
                 at_start |-> Table(conn, name)])
        /\ UNCHANGED <<conn, committed, txn_open, write_lock, in_transaction,
                       scope, appends>>

\* Mutant: the offset advances by one row per page.
NextOffsetByOne(offset, result_length) == offset + 1

\* offset += result_length
NextOffset(offset, result_length) == offset + result_length

\* Mutant: while True.
WhileTrue(result_length) == TRUE

\* while result_length != 0
WhileResultLength(result_length) == result_length # 0

\* next() while result_length != 0: one page is queried and yielded;
\* frame.pages records the pages yielded so far. An InvalidNumberInput ends
\* the generator. No sequence over MaxRows rows has more than MaxRows + 1
\* pages; the count of pages is capped there.
BatchQueryNext(t) ==
    /\ pc[t] = "batch_next"
    /\ WhileResultLength(frame[t].result_length)
    /\ Len(frame[t].pages) <= MaxRows + 1
    /\ LET f == frame[t]
           result == FormAndExecuteJsonQuery(Table(conn, f.table), f.limit,
                                             PyInt(f.offset), f.filters, f.logical_and)
       IN IF result.raised # ""
          THEN Return(t, [op |-> "batch_query", table |-> f.table,
                          batch_size |-> f.limit, filters |-> f.filters,
                          logical_and |-> f.logical_and,
                          raised |-> result.raised, pages |-> f.pages])
          ELSE Goto(t, "batch_next",
                    [f EXCEPT !.result_length = Len(result.rows),
                              !.offset = NextOffset(f.offset, Len(result.rows)),
                              !.pages = Append(f.pages, result.rows)])
    /\ UNCHANGED <<conn, committed, txn_open, write_lock, in_transaction,
                   scope, appends>>

\* next() after the empty page: the loop ends, the generator is exhausted.
BatchQueryStop(t) ==
    /\ pc[t] = "batch_next"
    /\ ~WhileResultLength(frame[t].result_length)
    /\ Return(t, [op |-> "batch_query", table |-> frame[t].table,
                  batch_size |-> frame[t].limit, filters |-> frame[t].filters,
                  logical_and |-> frame[t].logical_and,
                  raised |-> "", pages |-> frame[t].pages,
                  at_start |-> frame[t].at_start])
    /\ UNCHANGED <<conn, committed, txn_open, write_lock, in_transaction,
                   scope, appends>>

\* ------------------------------------------------------------------- Next

\* The inserting operations, which take the write lock.
WriterStep(t) ==
    \/ WriteStateChangeLock(t)
    \/ WriteStateChangeExecute(t)
    \/ WriteStateChangeExit(t)
    \/ WriteEventsLock(t)
    \/ WriteEventsExecute(t)
    \/ WriteEventsExit(t)

SnapshotStep(t) ==
    \/ WriteStateSnapshotLock(t)
    \/ WriteStateSnapshotExecute(t)
    \/ WriteStateSnapshotExit(t)

DeleteStep(t) ==
    \/ DeleteStateChangesLock(t)
    \/ DeleteStateChangesExecute(t)
    \/ DeleteStateChangesExit(t)

\* The migration updates, which take no lock and commit through maybe_commit.
UpdateStep(t) ==
    \/ UpdateStateChangesExecute(t)
    \/ UpdateEventsExecute(t)
    \/ UpdateSnapshotsExecute(t)
    \/ MaybeCommit(t)

TransactionStep(t) ==
    \/ TransactionEnter(t)
    \/ TransactionCommit(t)
    \/ TransactionRaise(t)

\* The reads by identifier.
ReadStep(t) ==
    \/ CountStateChanges(t)
    \/ GetLatestStateSnapshot(t)
    \/ GetSnapshotClosestToStateChange(t)
    \/ GetStateChangesByIdentifier(t)

\* Two concurrent callers: one appends state changes, the other runs the
\* updates, inside and outside transaction() scopes.
Next ==
    \/ \E t \in {"t1"} :
        \/ WriteStateChangeLock(t)
        \/ WriteStateChangeExecute(t)
        \/ WriteStateChangeExit(t)
    \/ \E t \in {"t2"} :
        \/ UpdateStep(t)
        \/ TransactionStep(t)
    \/ \E t \in Threads : TakeResult(t)

Spec == Init /\ [][Next]_vars

\* One caller: state changes and snapshots written, updated and read back.
SeqNext ==
    \E t \in SeqThreads :
        \/ WriteStateChangeLock(t)
        \/ WriteStateChangeExecute(t)
        \/ WriteStateChangeExit(t)
        \/ SnapshotStep(t)
        \/ UpdateStateChangesExecute(t)
        \/ UpdateSnapshotsExecute(t)
        \/ MaybeCommit(t)
        \/ ReadStep(t)
        \/ TakeResult(t)

SeqSpec == Init /\ [][SeqNext]_vars

\* One caller inside and outside transaction() scopes.
TxnNext ==
    \E t \in SeqThreads :
        \/ WriterStep(t)
        \/ SnapshotStep(t)
        \/ UpdateStep(t)
        \/ TransactionStep(t)
        \/ TakeResult(t)

TxnSpec == Init /\ [][TxnNext]_vars

\* The filtered and paginated queries.
QueryStep(t) ==
    \/ GetRecords(t)
    \/ QueryEvents(t)
    \/ QueryPaymentsEvents(t)
    \/ BatchQueryCall(t)
    \/ BatchQueryNext(t)
    \/ BatchQueryStop(t)

\* One caller: state changes and events written, and the filtered, paginated
\* queries over them.
QueryNext ==
    \E t \in SeqThreads :
        \/ WriterStep(t)
        \/ QueryStep(t)
        \/ TakeResult(t)

QuerySpec == Init /\ [][QueryNext]_vars

\* A caller of the inserts next to a caller of update_state_changes.
AtomicNext ==
    \/ \E t \in {"t1"} :
        \/ WriteStateChangeLock(t)
        \/ WriteStateChangeExecute(t)
        \/ WriteStateChangeExit(t)
        \/ WriteEventRowsLock(t)
        \/ WriteEventsExecute(t)
        \/ WriteEventsExit(t)
    \/ \E t \in {"t2"} :
        \/ UpdateStateChangesExecute(t)
        \/ MaybeCommit(t)
    \/ \E t \in Threads : TakeResult(t)

AtomicSpec == Init /\ [][AtomicNext]_vars

\* A caller of every insert next to a caller opening and closing
\* transaction() scopes on the same connection.
StoreNext ==
    \/ \E t \in {"t1"} :
        \/ WriterStep(t)
        \/ SnapshotStep(t)
    \/ \E t \in {"t2"} : TransactionStep(t)
    \/ \E t \in Threads : TakeResult(t)

StoreSpec == Init /\ [][StoreNext]_vars

\* The serialized payment events of a node: kind, initiator, target and
\* token network of a payment.
PaymentEventData ==
    [type : {ReceivedSuccess, SentFailed, SentSuccess},
     initiator : {"0xNode", "0xPeer"}, target : {"0xNode", "0xPeer"},
     token_network_identifier : {"0xTokenNetwork"}]

\* Events written for the state change rows[1]: identifiers 1..n.
EventRows(docs) ==
    [i \in 1..Len(docs) |->
        [identifier |-> i, source_statechange_id |-> 1, data |-> docs[i]]]

\* A store holding one state change and up to MaxEvents payment events of it.
PaymentsInit ==
    /\ \E n \in 0..MaxEvents :
        \E docs \in [1..n -> PaymentEventData] :
            conn = [EmptyDb EXCEPT
                       !.state_changes = <<[identifier |-> 1, data |-> [type |-> "Block"]]>>,
                       !.state_events = EventRows(docs)]
    /\ committed = conn
    /\ txn_open = FALSE
    /\ write_lock = NoThread
    /\ in_transaction = FALSE
    /\ pc = [t \in Threads |-> "idle"]
    /\ frame = [t \in Threads |-> Idle]
    /\ ret = [t \in Threads |-> NoRet]
    /\ scope = [t \in Threads |-> FALSE]
    /\ appends = 1

PaymentsNext ==
    \E t \in SeqThreads : GetPaymentEvents(t) \/ TakeResult(t)

PaymentsSpec == PaymentsInit /\ [][PaymentsNext]_vars

\* The times the events were logged at: before and after the date asked for.
LogTimes == {1, 3}

\* A store holding one state change and up to MaxEvents payment events of it,
\* each with its log_time.
DatedInit ==
    /\ \E n \in 0..MaxEvents :
        \E docs \in [1..n -> PaymentEventData], times \in [1..n -> LogTimes] :
            conn = [EmptyDb EXCEPT
                       !.state_changes = <<[identifier |-> 1, data |-> [type |-> "Block"]]>>,
                       !.state_events =
                           [i \in 1..n |->
                               [identifier |-> i, source_statechange_id |-> 1,
                                data |-> docs[i], log_time |-> times[i]]]]
    /\ committed = conn
    /\ txn_open = FALSE
    /\ write_lock = NoThread
    /\ in_transaction = FALSE
    /\ pc = [t \in Threads |-> "idle"]
    /\ frame = [t \in Threads |-> Idle]
    /\ ret = [t \in Threads |-> NoRet]
    /\ scope = [t \in Threads |-> FALSE]
    /\ appends = 1

DatedNext ==
    \E t \in SeqThreads : GetPaymentEventsDated(t) \/ TakeResult(t)

DatedSpec == DatedInit /\ [][DatedNext]_vars

\* A store holding up to MaxRows state changes, each with one event of the
\* same document.
BatchInit ==
    /\ \E n \in 0..MaxRows :
        \E docs \in [1..n -> Payload] :
            conn = [EmptyDb EXCEPT
                       !.state_changes =
                           [i \in 1..n |-> [identifier |-> i, data |-> docs[i]]],
                       !.state_events =
                           [i \in 1..n |-> [identifier |-> i, source_statechange_id |-> i,
                                            data |-> docs[i]]]]
    /\ committed = conn
    /\ txn_open = FALSE
    /\ write_lock = NoThread
    /\ in_transaction = FALSE
    /\ pc = [t \in Threads |-> "idle"]
    /\ frame = [t \in Threads |-> Idle]
    /\ ret = [t \in Threads |-> NoRet]
    /\ scope = [t \in Threads |-> FALSE]
    /\ appends = Len(conn.state_changes)

BatchNext ==
    \E t \in SeqThreads :
        \/ BatchQueryCall(t)
        \/ BatchQueryNext(t)
        \/ BatchQueryStop(t)
        \/ TakeResult(t)

\* The consumer of a page sequence keeps asking for the next page.
BatchFairSpec ==
    /\ BatchInit
    /\ [][BatchNext]_vars
    /\ \A t \in SeqThreads : WF_vars(BatchQueryNext(t) \/ BatchQueryStop(t))

\* One caller of the operations on state changes and of those that write and
\* delete events, inside and outside transaction() scopes.
LogNext ==
    \E t \in SeqThreads :
        \/ WriterStep(t)
        \/ DeleteStep(t)
        \/ UpdateStateChangesExecute(t)
        \/ MaybeCommit(t)
        \/ TransactionStep(t)
        \/ TakeResult(t)

LogSpec == Init /\ [][LogNext]_vars

\* A caller of write_state_change next to a caller of log_run.
RowIdNext ==
    \/ \E t \in {"t1"} :
        \/ WriteStateChangeLock(t)
        \/ WriteStateChangeInsert(t)
        \/ WriteStateChangeLastRowId(t)
        \/ WriteStateChangeExit(t)
    \/ \E t \in {"t2"} :
        \/ LogRunExecute(t)
        \/ MaybeCommit(t)
    \/ \E t \in Threads : TakeResult(t)

RowIdSpec == Init /\ [][RowIdNext]_vars

\* One caller of the operations that commit through maybe_commit, inside and
\* outside transaction() scopes, on a store with state changes and events.
ScopeNext ==
    \E t \in SeqThreads :
        \/ UpdateStateChangesExecute(t)
        \/ UpdateEventsExecute(t)
        \/ LogRunExecute(t)
        \/ MaybeCommit(t)
        \/ TransactionStep(t)
        \/ TakeResult(t)

\* A store holding up to MaxEvents state changes and their events, as written
\* before the updates.
ScopeInit ==
    /\ BatchInit
    /\ Len(conn.state_changes) <= MaxEvents
    /\ \A i \in 1..Len(conn.state_changes) : conn.state_changes[i].data = [type |-> "Block"]

ScopeSpec == ScopeInit /\ [][ScopeNext]_vars

\* A caller of update_state_changes next to a caller opening and closing
\* transaction() scopes.
UndoNext ==
    \/ \E t \in {"t1"} :
        \/ UpdateStateChangesExecute(t)
        \/ MaybeCommit(t)
    \/ \E t \in {"t2"} : TransactionStep(t)
    \/ \E t \in Threads : TakeResult(t)

UndoSpec == ScopeInit /\ [][UndoNext]_vars

\* A caller of write_state_change and write_events next to a reader of the
\* events.
ReaderNext ==
    \/ \E t \in {"t1"} : WriterStep(t)
    \/ \E t \in {"t2"} : QueryEvents(t)
    \/ \E t \in Threads : TakeResult(t)

ReaderSpec == Init /\ [][ReaderNext]_vars

\* A step of a call of write_state_change or write_events already under way.
LockedStep(t) ==
    \/ WriteStateChangeExecute(t)
    \/ WriteStateChangeExit(t)
    \/ WriteEventsExecute(t)
    \/ WriteEventsExit(t)

\* Two callers of write_state_change, waiting for the lock where it is held,
\* and of write_events.
LockNext ==
    \E t \in Threads :
        \/ WriteStateChangeCall(t)
        \/ WriteStateChangeAcquire(t)
        \/ WriteEventsLock(t)
        \/ LockedStep(t)
        \/ TakeResult(t)

\* A thread inside a call keeps running, and a thread waiting for the lock
\* gets it if it is free again and again.
LockFairSpec ==
    /\ Init
    /\ [][LockNext]_vars
    /\ \A t \in Threads :
        /\ WF_vars(LockedStep(t))
        /\ SF_vars(WriteStateChangeAcquire(t))

\* _get_query_with_values applied to the arguments of a caller.
TupleNext ==
    \E t \in SeqThreads : GetQueryWithValuesCall(t) \/ TakeResult(t)

TupleSpec == Init /\ [][TupleNext]_vars

\* A consumer of page sequences next to a caller that appends state changes
\* and deletes events between the pages.
PagingNext ==
    \/ \E t \in {"t1"} :
        \/ BatchQueryCall(t)
        \/ BatchQueryNext(t)
        \/ BatchQueryStop(t)
    \/ \E t \in {"t2"} :
        \/ WriteStateChangeLock(t)
        \/ WriteStateChangeExecute(t)
        \/ WriteStateChangeExit(t)
        \/ DeleteStep(t)
    \/ \E t \in Threads : TakeResult(t)

\* A store of MaxEvents state changes with one event each.
PagingInit ==
    /\ ScopeInit
    /\ Len(conn.state_changes) = MaxEvents

PagingSpec == PagingInit /\ [][PagingNext]_vars

\* _filter_from_dict applied to the filters of a caller.
FlattenNext ==
    \E t \in SeqThreads : FilterFromDictCall(t) \/ TakeResult(t)

FlattenSpec == Init /\ [][FlattenNext]_vars

\* Serialized state changes and events with a nested field: "a": {"b": ..}
\* and "b": ..
FilterDocs ==
    {[type |-> "Block", a |-> [b |-> x], b |-> y] :
        x \in FilterLeaves, y \in FilterLeaves}

\* A store holding up to MaxEvents state changes, and one event of each, the
\* events written in the opposite order of documents.
FilterInit ==
    /\ \E n \in 0..MaxEvents :
        \E docs \in [1..n -> FilterDocs] :
            conn = [EmptyDb EXCEPT
                       !.state_changes =
                           [i \in 1..n |-> [identifier |-> i, data |-> docs[i]]],
                       !.state_events =
                           [i \in 1..n |-> [identifier |-> i, source_statechange_id |-> i,
                                            data |-> docs[n + 1 - i]]]]
    /\ committed = conn
    /\ txn_open = FALSE
    /\ write_lock = NoThread
    /\ in_transaction = FALSE
    /\ pc = [t \in Threads |-> "idle"]
    /\ frame = [t \in Threads |-> Idle]
    /\ ret = [t \in Threads |-> NoRet]
    /\ scope = [t \in Threads |-> FALSE]
    /\ appends = Len(conn.state_changes)

FilterNext ==
    \E t \in SeqThreads :
        \/ GetLatestEventByDataField(t)
        \/ GetLatestStateChangeByDataField(t)
        \/ TakeResult(t)

FilterSpec == FilterInit /\ [][FilterNext]_vars

\* Concurrent callers of the locked inserts.
WritersNext ==
    \E t \in Threads : WriterStep(t) \/ TakeResult(t)

WritersSpec == Init /\ [][WritersNext]_vars

\* ------------------------------------------------------------- properties

MaxOf(S) == CHOOSE x \in S : \A y \in S : y <= x

Max(a, b) == IF a > b THEN a ELSE b

RECURSIVE Flatten(_)
Flatten(pages) ==
    IF pages = <<>> THEN <<>> ELSE Head(pages) \o Flatten(Tail(pages))

IsPrefix(s, r) == Len(s) <= Len(r) /\ SubSeq(r, 1, Len(s)) = s

\* rows[offset + 1 .. offset + limit], limit None meaning all, offset None 0
Window(rows, limit, offset) ==
    LET off == IF offset = PyNone THEN 0 ELSE offset.int
        rest == Max(0, Len(rows) - off)
        n == IF limit = PyNone THEN rest ELSE Min(limit.int, rest)
    IN [i \in 1..n |-> rows[off + i]]

\* C1: the k-th completed write_state_change returns k, the identifiers in the
\* table are 1..n without a gap, and count_state_changes returns the number of
\* completed appends.
C1_AppendIdentifiers ==
    /\ Ids(conn.state_changes) = 1..Len(conn.state_changes)
    /\ \A i \in 1..Len(conn.state_changes) : conn.state_changes[i].identifier = i
    /\ \A t \in Threads :
        /\ ret[t].op = "write_state_change" => ret[t].val = appends
        /\ ret[t].op = "count_state_changes" => ret[t].val = appends

C1_Witness ==
    /\ ret["t1"].op = "count_state_changes"
    /\ ret["t1"].val = 3
    /\ appends = 3

\* C5: get_snapshot_closest_to_state_change(n) returns the snapshot whose
\* statechange_id is the greatest one <= n, and (0, None) when there is none.
C5_ClosestIsGreatest ==
    \A t \in Threads :
        (ret[t].op = "get_snapshot_closest_to_state_change" /\ IsInt(ret[t].arg)) =>
            LET rows == conn.state_snapshot
                below == {i \in 1..Len(rows) : rows[i].statechange_id <= ret[t].arg.int}
            IN IF below = {}
               THEN ret[t].val.statechange_id = 0 /\ ret[t].val.data = PyNone
               ELSE /\ ret[t].val.statechange_id =
                         MaxOf({rows[i].statechange_id : i \in below})
                    /\ \E i \in below :
                         /\ rows[i].statechange_id = ret[t].val.statechange_id
                         /\ rows[i].data = ret[t].val.data

\* C6: get_statechanges_by_identifier(from, to) with integer bounds returns the
\* payloads of exactly the state changes with from <= identifier <= to, in
\* ascending identifier order; with to = "latest", of those with
\* identifier >= from.
C6_RangeExact ==
    \A t \in Threads :
        (ret[t].op = "get_statechanges_by_identifier" /\ IsInt(ret[t].from)
            /\ (IsInt(ret[t].to) \/ ret[t].to = Latest)) =>
            LET rows == conn.state_changes
                lo == Max(ret[t].from.int, 1)
                hi == IF ret[t].to = Latest THEN Len(rows)
                      ELSE Min(ret[t].to.int, Len(rows))
            IN /\ ret[t].raised = ""
               /\ Len(ret[t].val.rows) = Max(0, hi - lo + 1)
               /\ \A i \in 1..Len(ret[t].val.rows) :
                    /\ rows[lo + i - 1].identifier = lo + i - 1
                    /\ ret[t].val.rows[i] = rows[lo + i - 1].data

C6_Witness ==
    /\ ret["t1"].op = "get_statechanges_by_identifier"
    /\ ret["t1"].from = PyInt(2)
    /\ ret["t1"].to = PyInt(3)
    /\ Len(conn.state_changes) = 4
    /\ Len(ret["t1"].val.rows) = 2
    /\ conn.state_changes[1].data # conn.state_changes[2].data

\* C7: on a store with a state change, get_statechanges_by_identifier("latest",
\* None) returns exactly one element, the state change written last.
C7_LatestReturnsOne ==
    \A t \in Threads :
        (ret[t].op = "get_statechanges_by_identifier" /\ ret[t].from = Latest
            /\ ret[t].to = PyNone /\ conn.state_changes # <<>>) =>
            /\ ret[t].raised = ""
            /\ ret[t].val.rows = <<conn.state_changes[Len(conn.state_changes)].data>>

\* C8: get_latest_state_snapshot returns None while no snapshot was written,
\* and otherwise (statechange_id, data) of the snapshot with the greatest
\* identifier, which is the one written by the last write_state_snapshot.
C8_LatestSnapshot ==
    \A t \in Threads :
        /\ ret[t].op = "get_latest_state_snapshot" =>
            LET rows == conn.state_snapshot IN
            IF rows = <<>>
            THEN ~ret[t].val.found
            ELSE /\ ret[t].val.found
                 /\ \E i \in 1..Len(rows) :
                      /\ rows[i].identifier = MaxOf(Ids(rows))
                      /\ ret[t].val.statechange_id = rows[i].statechange_id
                      /\ ret[t].val.data = rows[i].data
        /\ (ret[t].op = "write_state_snapshot" /\ ret[t].raised = "") =>
            /\ ret[t].val = MaxOf(Ids(conn.state_snapshot))
            /\ GetLatestStateSnapshotQuery(conn) =
                 [found |-> TRUE, statechange_id |-> ret[t].statechange_id,
                  data |-> ret[t].data]

C8_Witness ==
    /\ ret["t1"].op = "get_latest_state_snapshot"
    /\ Len(conn.state_snapshot) = 2
    /\ conn.state_snapshot[1].statechange_id = 2
    /\ ret["t1"].val.found
    /\ ret["t1"].val.statechange_id = 1

\* A caller has executed a write statement that is not committed yet.
MutationInFlight(t) ==
    \/ pc[t] \in {"wsc_exit", "wss_exit", "dsc_exit", "maybe_commit"}
    \/ pc[t] = "we_execute" /\ frame[t].rows # <<>>
    \/ pc[t] = "dsc_execute" /\ frame[t].done > 0

RowsOf(rows) == {rows[i] : i \in 1..Len(rows)}

\* No row of a write_events batch still being written is committed, and no two
\* event rows share an identifier.
C2_NoPartialBatch ==
    /\ \A t \in Threads :
        pc[t] = "we_execute" =>
            \A i \in 1..Len(frame[t].rows) :
                frame[t].rows[i] \notin Ids(committed.state_events)
    /\ \A i, j \in 1..Len(conn.state_events) :
        i # j => conn.state_events[i].identifier # conn.state_events[j].identifier

\* A write_events call that returns has every row of its batch committed, with
\* the state change and the payload it was given, and no committed event row
\* disappears.
C2_BatchCommitted ==
    /\ \A t \in Threads :
        (pc[t] = "we_execute" /\ pc'[t] = "idle" /\ ~frame[t].failed) =>
            /\ Len(frame[t].rows) = Len(frame[t].events)
            /\ \A i \in 1..Len(frame[t].rows) :
                [identifier |-> frame[t].rows[i],
                 source_statechange_id |-> frame[t].statechange_id,
                 data |-> frame[t].events[i]] \in RowsOf(committed'.state_events)
    /\ RowsOf(committed.state_events) \subseteq RowsOf(committed'.state_events)

\* C2: concurrent write_events calls, each for an existing state change, all
\* commit their whole batch: no row is lost, no batch is committed in part, no
\* identifier is used twice.
C2_ConcurrentWriteEvents == []C2_NoPartialBatch /\ [][C2_BatchCommitted]_vars

C2_Witness ==
    /\ pc["t1"] = "we_execute"
    /\ Len(frame["t1"].events) = 2
    /\ Len(frame["t1"].rows) = 1
    /\ ret["t2"].op = "write_events"
    /\ ret["t2"].raised = ""
    /\ Len(committed.state_events) = 1

\* C3: every mutating operation holds the write lock from its write to its
\* commit, so at most one mutation is in flight on the connection.
C3_OneMutationInFlight ==
    Cardinality({t \in Threads : MutationInFlight(t)}) <= 1

\* C4: while a caller is inside a transaction() scope nothing is committed
\* before the scope ends; a scope that ends with an error leaves the database
\* as committed before, with the scope's writes rolled back, and a scope that
\* ends normally commits them together.
C4_ScopeAllOrNothing ==
    [][\A t \in Threads :
        scope[t] =>
            /\ committed' # committed =>
                (~scope'[t] /\ ret'[t].raised = "" /\ committed' = conn)
            /\ (~scope'[t] /\ ret'[t].raised # "") =>
                (conn' = committed /\ committed' = committed)]_vars

\* C9: the pages of a batch query with batch size >= 1 over an unmodified
\* store, concatenated, are the rows of the one unbounded filtered query in the
\* same order, and no page has more than batch_size rows.
C9_PagesEqualUnbounded ==
    \A t \in Threads :
        /\ (pc[t] = "batch_next" /\ IsInt(frame[t].limit) /\ frame[t].limit.int >= 1) =>
            /\ IsPrefix(Flatten(frame[t].pages),
                        FormAndExecuteJsonQuery(Table(conn, frame[t].table),
                            PyNone, PyNone, frame[t].filters, frame[t].logical_and).rows)
            /\ \A i \in 1..Len(frame[t].pages) :
                Len(frame[t].pages[i]) <= frame[t].limit.int
        /\ (ret[t].op = "batch_query" /\ IsInt(ret[t].batch_size)
                /\ ret[t].batch_size.int >= 1) =>
            /\ ret[t].raised = ""
            /\ Flatten(ret[t].pages) =
                 FormAndExecuteJsonQuery(Table(conn, ret[t].table),
                     PyNone, PyNone, ret[t].filters, ret[t].logical_and).rows
            /\ \A i \in 1..Len(ret[t].pages) :
                Len(ret[t].pages[i]) <= ret[t].batch_size.int

C9_Witness ==
    /\ ret["t1"].op = "batch_query"
    /\ ret["t1"].batch_size = PyInt(2)
    /\ ret["t1"].table = "state_events"
    /\ ret["t1"].filters = <<<<"_type", "block">>>>
    /\ Len(ret["t1"].pages) = 3
    /\ Len(ret["t1"].pages[2]) = 1
    /\ Len(conn.state_events) = 3

\* None, or an int that is not negative.
Accepted(x) == x = PyNone \/ (IsInt(x) /\ x.int >= 0)

\* C10: a limit or offset that is negative or no integer makes the filtered,
\* paginated and payment-event queries raise InvalidNumberInput before a
\* statement is executed; None and every non-negative integer are accepted,
\* None meaning no limit, respectively offset 0.
C10_InvalidNumber ==
    \A t \in Threads :
        /\ ret[t].op \in {"get_records", "query_events", "query_payments_events"} =>
            IF Accepted(ret[t].limit) /\ Accepted(ret[t].offset)
            THEN /\ ret[t].raised = ""
                 /\ ret[t].val.executed
                 /\ ret[t].val.rows =
                      Window(
                        CASE ret[t].op = "get_records" ->
                               SelectSeq(Table(conn, ret[t].table),
                                   LAMBDA row : Where(row.data, ret[t].filters,
                                                      ret[t].logical_and))
                          [] ret[t].op = "query_events" -> DataOf(conn.state_events)
                          [] OTHER ->
                               DataOf(SelectSeq(conn.state_events,
                                   LAMBDA row : row.data.type \in PaymentEventTypes)),
                        ret[t].limit, ret[t].offset)
            ELSE /\ ret[t].raised = "InvalidNumberInput"
                 /\ ~ret[t].val.executed
                 /\ ret[t].val.rows = <<>>
        /\ ret[t].op = "batch_query" =>
            IF Accepted(ret[t].batch_size)
            THEN ret[t].raised = ""
            ELSE ret[t].raised = "InvalidNumberInput" /\ ret[t].pages = <<>>

C10_Witness ==
    /\ ret["t1"].op = "query_payments_events"
    /\ ret["t1"].limit = PyInt(-1)
    /\ ret["t1"].offset = PyNone
    /\ ret["t1"].raised = "InvalidNumberInput"
    /\ Len(conn.state_events) = 2

\* Neither an int nor the string "latest".
BadBound(x) == ~(x = Latest \/ IsInt(x))

\* A call of one of the two reads by identifier returns in this step with a
\* bound that is neither an integer nor "latest".
BadBoundCall(t) ==
    /\ ret[t] = NoRet
    /\ \/ /\ ret'[t].op = "get_snapshot_closest_to_state_change"
          /\ BadBound(ret'[t].arg)
       \/ /\ ret'[t].op = "get_statechanges_by_identifier"
          /\ BadBound(ret'[t].from) \/ BadBound(ret'[t].to)

C20_LatestResolved ==
    \A t \in Threads :
        (ret[t].op = "get_snapshot_closest_to_state_change" /\ ret[t].arg = Latest) =>
            LET n == MaxOf(Ids(conn.state_changes) \cup {0})
                rows == conn.state_snapshot
                below == {i \in 1..Len(rows) : rows[i].statechange_id <= n}
            IN /\ ret[t].raised = ""
               /\ IF below = {}
                  THEN ret[t].val.statechange_id = 0 /\ ret[t].val.data = PyNone
                  ELSE /\ ret[t].val.statechange_id = rows[MaxOf(below)].statechange_id
                       /\ ret[t].val.data = rows[MaxOf(below)].data

C20_Witness ==
    /\ ret["t1"].op = "get_snapshot_closest_to_state_change"
    /\ ret["t1"].arg = Latest
    /\ Len(conn.state_changes) = 2
    /\ Len(conn.state_snapshot) = 1
    /\ conn.state_snapshot[1].statechange_id = 2
    /\ ret["t1"].val.statechange_id = 2

\* C18: a state change written through SerializedSQLiteStorage and read back
\* with get_statechanges_by_identifier(id, id), id the identifier returned, is
\* the one element list of that state change; a snapshot written and read
\* back with get_latest_state_snapshot is that snapshot with its statechange_id.
C18_RoundTrip ==
    [][\A t \in Threads :
        /\ (pc[t] = "wsc_exit" /\ pc'[t] = "idle") =>
            StateChangesDeserialized(conn', PyInt(ret'[t].val), PyInt(ret'[t].val))
                = <<frame[t].state_change>>
        /\ (pc[t] = "wss_exit" /\ pc'[t] = "idle" /\ ret'[t].raised = "") =>
            LatestStateSnapshotDeserialized(conn')
                = [found |-> TRUE, statechange_id |-> frame[t].statechange_id,
                   snapshot |-> frame[t].snapshot]]_vars

C18_Witness ==
    /\ ret["t1"].op = "write_state_change"
    /\ ret["t1"].val = 3
    /\ conn.state_changes[3].data = Serialize([cls |-> "Block"])
    /\ conn.state_changes[2].data # conn.state_changes[3].data
    /\ Len(conn.state_snapshot) = 1

\* C12: a write_events call that fails leaves none of its rows in the store,
\* one that succeeds leaves all of them committed, and the row of a
\* write_state_change that returned is committed.
C12_AllOrNothing ==
    [][\A t \in Threads :
        /\ (pc[t] = "we_execute" /\ pc'[t] = "idle") =>
            IF frame[t].failed
            THEN \A i \in 1..Len(frame[t].rows) :
                    frame[t].rows[i] \notin
                        Ids(conn'.state_events) \cup Ids(committed'.state_events)
            ELSE \A i \in 1..Len(frame[t].rows) :
                    frame[t].rows[i] \in Ids(committed'.state_events)
        /\ (pc[t] = "wsc_exit" /\ pc'[t] = "idle") =>
            frame[t].last_id \in Ids(committed'.state_changes)]_vars

\* Every event row references a committed state change.
C13_EventsReferenceCommitted ==
    /\ \A i \in 1..Len(conn.state_events) :
        conn.state_events[i].source_statechange_id \in Ids(committed.state_changes)
    /\ \A i \in 1..Len(committed.state_events) :
        committed.state_events[i].source_statechange_id \in Ids(committed.state_changes)

\* An event row is inserted for a state change committed before; a write_events
\* call for a state change that does not exist raises and inserts no row.
C13_EventWritten ==
    /\ Len(conn'.state_events) > Len(conn.state_events) =>
        conn'.state_events[Len(conn'.state_events)].source_statechange_id
            \in Ids(committed.state_changes)
    /\ \A t \in Threads :
        (pc[t] = "we_execute" /\ pc'[t] = "idle"
            /\ frame[t].statechange_id \notin Ids(conn.state_changes)) =>
            /\ ret'[t].raised = "IntegrityError"
            /\ frame[t].rows = <<>>
            /\ conn'.state_events = committed.state_events
            /\ committed'.state_events = committed.state_events

\* C13: in every reachable state each event row's source_statechange_id is the
\* identifier of a state change committed before the event was written, and
\* write_events for a state change that does not exist writes no event.
C13_EventForeignKey == []C13_EventsReferenceCommitted /\ [][C13_EventWritten]_vars

C13_Witness ==
    /\ ret["t1"].op = "write_events"
    /\ ret["t1"].raised = "IntegrityError"
    /\ Len(conn.state_changes) = 2
    /\ Len(conn.state_events) = 1
    /\ conn.state_events[1].source_statechange_id = 2
    /\ scope["t2"]

\* Every snapshot row references a state change of the table.
C14_SnapshotsReference ==
    \A i \in 1..Len(conn.state_snapshot) :
        /\ conn.state_snapshot[i].statechange_id \in Ids(conn.state_changes)
        /\ conn.state_snapshot[i].statechange_id
              <= MaxOf(Ids(conn.state_changes) \cup {0})

\* A snapshot row is inserted with the identifier of a state change there is,
\* at most the greatest one.
C14_SnapshotWritten ==
    Len(conn'.state_snapshot) > Len(conn.state_snapshot) =>
        LET row == conn'.state_snapshot[Len(conn'.state_snapshot)]
        IN /\ row.statechange_id \in Ids(conn.state_changes)
           /\ row.statechange_id <= MaxOf(Ids(conn.state_changes) \cup {0})

\* C14: in every reachable state each snapshot row's statechange_id is the
\* identifier of a state change, at most the greatest state change identifier
\* there was when write_state_snapshot created the row.
C14_SnapshotForeignKey == []C14_SnapshotsReference /\ [][C14_SnapshotWritten]_vars

C14_Witness ==
    /\ Len(conn.state_changes) = 2
    /\ Len(conn.state_snapshot) = 2
    /\ conn.state_snapshot[1].statechange_id = 2
    /\ conn.state_snapshot[2].statechange_id = 1
    /\ ret["t1"].op = "write_state_snapshot"
    /\ ret["t1"].raised = ""

\* C15: a payment-event query whose target_address is the node's own address,
\* in any letter case, returns received-success events only, whatever
\* event_type, initiator_address and token network are given.
C15_TargetOursReceivedOnly ==
    \A t \in Threads :
        (ret[t].op = "get_payment_events"
            /\ IsOurAddress(ret[t].target_address, ret[t].our_address)) =>
            \A i \in 1..Len(ret[t].val) : ret[t].val[i].type = ReceivedSuccess

\* C16: a payment-event query whose initiator_address is the node's own
\* address and whose target_address is not returns sent events only, never a
\* received one, whatever event_type is given.
C16_InitiatorOursSentOnly ==
    \A t \in Threads :
        (ret[t].op = "get_payment_events"
            /\ IsOurAddress(ret[t].initiator_address, ret[t].our_address)
            /\ ~IsOurAddress(ret[t].target_address, ret[t].our_address)) =>
            \A i \in 1..Len(ret[t].val) :
                ret[t].val[i].type \in {SentSuccess, SentFailed}

C16_Witness ==
    /\ ret["t1"].op = "get_payment_events"
    /\ ret["t1"].initiator_address = PyStr("0xnode")
    /\ ret["t1"].target_address = PyStr("0xPeer")
    /\ ret["t1"].event_type = PyInt(1)
    /\ Len(ret["t1"].val) = 1
    /\ Len(conn.state_events) = 2
    /\ conn.state_events[1].data.type = ReceivedSuccess
    /\ conn.state_events[1].data.target = "0xPeer"

\* The leaves of a nested dict: the keys on the way to each, and its value.
RECURSIVE LeavesOf(_)
LeavesOf(items) ==
    UNION {IF IsDict(items[i][2])
           THEN {<<<<items[i][1]>> \o l[1], l[2]>> : l \in LeavesOf(items[i][2].dict)}
           ELSE {<<<<items[i][1]>>, items[i][2]>>} : i \in 1..Len(items)}

\* The flat dict has one item per leaf, under the dot-joined keys on the way
\* to the leaf, holding the value of the leaf.
OneItemPerLeaf(current, flat) ==
    /\ Len(flat) = Cardinality(LeavesOf(current))
    /\ {flat[i] : i \in 1..Len(flat)}
         = {<<Flatten(l[1]), l[2]>> : l \in LeavesOf(current)}
    /\ \A i, j \in 1..Len(flat) : flat[i][1] = flat[j][1] => i = j

\* C19 as claimed: _filter_from_dict maps every nested filter to the flat dict
\* with exactly one item per leaf, keyed by the dot-joined path; no leaf is
\* dropped or overwritten.
C19_OneItemPerLeaf ==
    \A t \in Threads :
        ret[t].op = "_filter_from_dict" => OneItemPerLeaf(ret[t].current, ret[t].val)

\* No two leaves have the same dot-joined path.
DistinctJoinedPaths(current) ==
    \A l1, l2 \in LeavesOf(current) : Flatten(l1[1]) = Flatten(l2[1]) => l1[1] = l2[1]

\* C19 amended: the same, for the filters no two leaves of which have the
\* same dot-joined path.
C19_OneItemPerDistinctPath ==
    \A t \in Threads :
        (ret[t].op = "_filter_from_dict" /\ DistinctJoinedPaths(ret[t].current)) =>
            OneItemPerLeaf(ret[t].current, ret[t].val)

C19_Witness ==
    /\ ret["t1"].op = "_filter_from_dict"
    /\ ret["t1"].current =
         <<<<<<"a">>, Dict(<<<<<<"b">>, Leaf(1)>>, <<<<"c">>, Leaf(2)>>>>)>>,
           <<<<"b">>, Leaf(2)>>>>
    /\ ret["t1"].val =
         <<<<<<"a", "b">>, Leaf(1)>>, <<<<"a", "c">>, Leaf(2)>>, <<<<"b">>, Leaf(2)>>>>

\* The document has the value of every leaf of the filters at the leaf's path.
SatisfiesAll(data, filters) ==
    \A l \in LeavesOf(filters) :
        /\ ~JsonExtractPath(data, Flatten(l[1])).null
        /\ JsonExtractPath(data, Flatten(l[1])).v = l[2]

\* C17: get_latest_event_by_data_field and
\* get_latest_state_change_by_data_field return the row with the greatest
\* identifier among those satisfying all filters, and the record with
\* identifier 0 and data None when there is none; the identifier returned is
\* > 0 exactly when a row matched.
C17_LatestByDataField ==
    \A t \in Threads :
        ret[t].op \in {"get_latest_event_by_data_field",
                       "get_latest_state_change_by_data_field"} =>
            LET rows == Table(conn, ret[t].table)
                sat == {i \in 1..Len(rows) : SatisfiesAll(rows[i].data, ret[t].filters)}
            IN /\ ret[t].raised = ""
               /\ IF sat = {}
                  THEN ret[t].val.identifier = 0 /\ ret[t].val.data = PyNone
                  ELSE /\ ret[t].val.identifier = rows[MaxOf(sat)].identifier
                       /\ ret[t].val.identifier > 0
                       /\ ret[t].val.data = Deserialize(rows[MaxOf(sat)].data)

\* C21: every row the payment-event query returns has one of the three
\* payment-event kinds and a log_time inside the date range asked for, whatever
\* token network, initiator, target and dates are given.
C21_KindAndDateRange ==
    \A t \in Threads :
        (ret[t].op = "get_payment_events" /\ "from_date" \in DOMAIN ret[t]) =>
            \A i \in 1..Len(ret[t].val) :
                /\ ret[t].val[i].data.type \in {ReceivedSuccess, SentFailed, SentSuccess}
                /\ ret[t].from_date # PyNone =>
                      ret[t].val[i].log_time >= ret[t].from_date.int
                /\ ret[t].to_date # PyNone =>
                      ret[t].val[i].log_time <= ret[t].to_date.int

\* Every page but the last is non-empty.
NonEmptyUntilLast(pages) == \A i \in 1..(Len(pages) - 1) : pages[i] # <<>>

\* The pages yielded so far are non-empty but possibly the last, and a
\* sequence that has ended has yielded one empty page, its last.
C22_PagesUntilEmpty ==
    \A t \in Threads :
        /\ (pc[t] = "batch_next" /\ IsInt(frame[t].limit) /\ frame[t].limit.int >= 1) =>
            /\ NonEmptyUntilLast(frame[t].pages)
            /\ frame[t].pages # <<>> =>
                  frame[t].result_length = Len(frame[t].pages[Len(frame[t].pages)])
            /\ Len(frame[t].pages) <= Len(Table(conn, frame[t].table)) + 1
        /\ (ret[t].op = "batch_query" /\ IsInt(ret[t].batch_size)
                /\ ret[t].batch_size.int >= 1) =>
            /\ ret[t].raised = ""
            /\ ret[t].pages # <<>>
            /\ ret[t].pages[Len(ret[t].pages)] = <<>>
            /\ NonEmptyUntilLast(ret[t].pages)

\* After the empty page the next step of the sequence ends it: no query, no
\* further page.
C22_ExhaustedForGood ==
    \A t \in Threads :
        (pc[t] = "batch_next" /\ frame[t].pages # <<>>
            /\ frame[t].pages[Len(frame[t].pages)] = <<>> /\ pc'[t] # pc[t]
            /\ IsInt(frame[t].limit) /\ frame[t].limit.int >= 1) =>
            /\ pc'[t] = "idle"
            /\ ret'[t].op = "batch_query"
            /\ ret'[t].pages = frame[t].pages

\* C22: on a store that is not growing the page sequence of a batch query of
\* batch size >= 1 is finite: it yields non-empty pages until the first page
\* with zero rows, yields that page, and is exhausted from then on.
C22_PageSequenceFinite ==
    /\ []C22_PagesUntilEmpty
    /\ [][C22_ExhaustedForGood]_vars
    /\ \A t \in SeqThreads :
        (pc[t] = "batch_next" /\ IsInt(frame[t].limit) /\ frame[t].limit.int >= 1)
            ~> (ret[t].op = "batch_query" /\ ret[t].raised = "")

C22_Witness ==
    /\ ret["t1"].op = "batch_query"
    /\ ret["t1"].batch_size = PyInt(1)
    /\ ret["t1"].table = "state_events"
    /\ ret["t1"].filters = <<>>
    /\ Len(ret["t1"].pages) = 4
    /\ ret["t1"].pages[4] = <<>>
    /\ Len(conn.state_events) = 3

\* Every state change a completed write_state_change appended is in the
\* table, committed, under its identifier.
C23_AppendedPresent ==
    /\ 1..appends \subseteq Ids(conn.state_changes)
    /\ 1..appends \subseteq Ids(committed.state_changes)

\* No step removes a state change or changes its identifier; the identifier
\* write_state_change returns is committed; a DELETE of delete_state_changes
\* leaves state_changes as it is and removes the event rows of the identifier
\* it is given, and no other.
C23_NoStateChangeRemoved ==
    /\ Ids(committed.state_changes) \subseteq Ids(committed'.state_changes)
    /\ Ids(committed.state_changes) \subseteq Ids(conn'.state_changes)
    /\ \A t \in Threads :
        /\ (pc[t] = "wsc_exit" /\ pc'[t] = "idle") =>
              ret'[t].val \in Ids(committed'.state_changes)
        /\ (pc[t] = "dsc_execute" /\ frame'[t] # frame[t]) =>
              /\ conn'.state_changes = conn.state_changes
              /\ conn'.state_snapshot = conn.state_snapshot
              /\ conn'.state_events =
                   SelectSeq(conn.state_events,
                       LAMBDA row : row.identifier #
                           frame[t].state_changes_to_delete[frame'[t].done])
        /\ (pc[t] = "dsc_exit" /\ pc'[t] = "idle") =>
              /\ committed'.state_changes = conn.state_changes
              /\ \A i \in 1..Len(conn.state_events) :
                    conn.state_events[i].identifier \notin
                        {frame[t].state_changes_to_delete[k] :
                            k \in 1..Len(frame[t].state_changes_to_delete)}

C24_ReturnsOwnIdentifier ==
    \A t \in Threads :
        (pc[t] = "wsc_exit" /\ "row" \in DOMAIN frame[t]) =>
            frame[t].last_id = frame[t].row

\* The flag is set exactly while a caller is inside a scope.
C25_FlagFollowsScope == in_transaction <=> \E t \in Threads : scope[t]

\* Inside a scope an operation ending in maybe_commit commits nothing; the
\* scope's normal exit commits all of it in one step; every exit resets the
\* flag; outside a scope maybe_commit commits.
C25_CommitAtExit ==
    \A t \in Threads :
        /\ (scope[t] /\ scope'[t]) => committed' = committed
        /\ (scope[t] /\ ~scope'[t]) =>
              /\ in_transaction' = FALSE
              /\ IF ret'[t].raised = ""
                 THEN conn' = conn /\ committed' = conn
                 ELSE conn' = committed /\ committed' = committed
        /\ (~scope[t] /\ pc[t] = "maybe_commit" /\ pc'[t] = "idle") =>
              committed' = conn /\ conn' = conn

\* C25: while a transaction() scope is active the update operations,
\* update_version and log_run do not commit; their changes are committed once,
\* at scope exit; every exit of the scope, normal or by error, resets
\* in_transaction, and later update operations commit on their own.
C25_UpdatesCommitAtScopeExit == []C25_FlagFollowsScope /\ [][C25_CommitAtExit]_vars

C25_Witness ==
    /\ ret["t1"].op = "transaction"
    /\ ret["t1"].raised = ""
    /\ ~in_transaction
    /\ committed.runs = 1
    /\ Len(committed.state_changes) = 2
    /\ committed.state_changes[1].data # committed.state_changes[2].data
    /\ committed.state_events[1].data = committed.state_events[2].data

\* C26: an update operation a thread runs outside a transaction scope of its
\* own is committed when its call returns, and the rollback of another
\* thread's transaction() does not undo it.
C26_UpdateCommittedOnReturn ==
    [][\A t \in Threads :
        /\ (~scope[t] /\ pc[t] = "maybe_commit" /\ pc'[t] = "idle") =>
              committed'.state_changes = conn.state_changes
        /\ (pc[t] = "idle" /\ ~scope[t]
                /\ \E u \in Threads \ {t} :
                      scope[u] /\ ~scope'[u] /\ ret'[u].raised # "") =>
              conn'.state_changes = conn.state_changes]_vars

\* C27: a reader of all events that runs while a write_events call of N rows
\* is under way sees none or all N rows of the batch, never some of them.
C27_ReaderSeesNoneOrAll ==
    [][\A r \in Threads :
        (ret[r] = NoRet /\ ret'[r].op = "query_events"
            /\ ret'[r].limit = PyNone /\ ret'[r].offset = PyNone) =>
            \A w \in Threads \ {r} :
                pc[w] = "we_execute" =>
                    Len(ret'[r].val.rows) - Len(committed.state_events)
                        \in {0, Len(frame[w].events)}]_vars

\* The lock is held by a caller inside its locked block and by nobody else.
C28_LockHeldInsideOnly ==
    \A t \in Threads :
        write_lock = t <=> pc[t] \in {"wsc_execute", "wsc_exit", "we_execute"}

\* The lock is taken only when it is free.
C28_AcquiredOnce ==
    (write_lock' # write_lock /\ write_lock' # NoThread) => write_lock = NoThread

C29_TupleMatchesPlaceholders ==
    \A t \in Threads :
        ret[t].op = "_get_query_with_values" =>
            /\ Len(ret[t].val) = Len(ret[t].placeholders)
            /\ \A i \in 1..Len(ret[t].placeholders) :
                  ret[t].val[i] = ret[t][ret[t].placeholders[i]]
            /\ SubSeq(ret[t].val, Len(ret[t].val) - 1, Len(ret[t].val))
                 = <<ret[t].limit, ret[t].offset>>

C29_Witness ==
    /\ ret["t1"].op = "_get_query_with_values"
    /\ ret["t1"].val = <<PyStr("0xTokenNetwork"), PyInt(1), PyInt(3), PyStr("0xPeer"),
                         PyStr("0xPeer"), PyStr("0xTokenNetwork"), PyInt(2), PyInt(1)>>

\* C30: with other callers appending and deleting rows while a page sequence
\* of batch size >= 1 is consumed, every row the filters select that was in
\* the table when the sequence started and is there when it has ended is in
\* exactly one place of the pages.
C30_SurvivorsYieldedOnce ==
    \A t \in Threads :
        (ret[t].op = "batch_query" /\ ret[t].raised = "" /\ IsInt(ret[t].batch_size)
            /\ ret[t].batch_size.int >= 1) =>
            LET yielded == Flatten(ret[t].pages)
                selected == SelectSeq(ret[t].at_start,
                                LAMBDA row : Where(row.data, ret[t].filters,
                                                   ret[t].logical_and))
            IN \A id \in Ids(selected) \cap Ids(Table(conn, ret[t].table)) :
                  Cardinality({i \in 1..Len(yielded) : yielded[i].identifier = id}) = 1

====
